---- MODULE Spec2Model ----
(***************************************************************************)
(* A model of @apollo/datasource-rest: the in-memory request deduplication *)
(* of RESTDataSource.fetch (the deduplicationPromises map) and the         *)
(* HTTP-header-sensitive shared cache HTTPCache.fetch.                     *)
(*                                                                         *)
(* JavaScript runs one job at a time: every action below is the code that  *)
(* runs between two awaits, and the actions interleave as the event loop   *)
(* may interleave the continuations.                                       *)
(***************************************************************************)
EXTENDS Integers, Sequences, FiniteSets, TLC

(***************************************************************************)
(* Bounds of the model.                                                    *)
(***************************************************************************)
\* Number of RESTDataSource.fetch calls made on the one data source.
MaxCalls == 4

Calls == 1..MaxCalls

\* "No call": the value of a Map.get() that finds nothing.
NoCall == 0

(***************************************************************************)
(* Requests.  A request is the outgoingRequest of RESTDataSource.fetch:    *)
(* its method, its explicit cacheKey (or none) and, for the data source    *)
(* class, whether requestDeduplicationPolicyFor is overridden to replace   *)
(* deduplicate-during-request-lifetime by deduplicate-until-invalidated.   *)
(***************************************************************************)
NoCacheKey == "undefined"

\* A cacheKey given with the request.
ExplicitCacheKey == "custom-key"

TheURL == "https://api.example.com/foo/1"

Methods == {"GET", "HEAD", "POST"}

\* The data source instances: every call is made on one of them (its this).
TheInstance == "dataSource"
OtherInstance == "otherDataSource"
Instances == { TheInstance, OtherInstance }

NoRequest ==
  [method |-> "none", cacheKey |-> NoCacheKey, untilInvalidated |-> FALSE,
   instance |-> TheInstance]

\* The requests the calls of the deduplication specification draw from.
Requests ==
  { [method |-> m, cacheKey |-> NoCacheKey, untilInvalidated |-> u,
      instance |-> TheInstance] :
      m \in Methods, u \in BOOLEAN }
  \ { [method |-> m, cacheKey |-> NoCacheKey, untilInvalidated |-> TRUE,
        instance |-> TheInstance] :
      m \in {"HEAD", "POST"} }

\* request.method ?? 'GET'
MethodOf(request) == IF request.method = "none" THEN "GET" ELSE request.method

\* A cache key without the method, as before the method was made part of it.
CacheKeyFor_UrlOnly(url, request) ==
  IF request.cacheKey # NoCacheKey THEN request.cacheKey ELSE url

\* RESTDataSource.cacheKeyFor: request.cacheKey ?? `${method} ${url}`
CacheKeyFor(url, request) ==
  IF request.cacheKey # NoCacheKey
    THEN request.cacheKey
    ELSE MethodOf(request) \o " " \o url

\* RESTDataSource.requestDeduplicationPolicyFor, the default implementation.
RequestDeduplicationPolicyFor(url, request) ==
  IF MethodOf(request) \in {"GET", "HEAD"}
    THEN [policy |-> "deduplicate-during-request-lifetime",
          deduplicationKey |-> CacheKeyFor(url, request),
          invalidateDeduplicationKeys |-> {}]
    ELSE [policy |-> "do-not-deduplicate",
          deduplicationKey |-> NoCacheKey,
          invalidateDeduplicationKeys |->
            { CacheKeyFor(url, [request EXCEPT !.method = "GET"]),
              CacheKeyFor(url, [request EXCEPT !.method = "HEAD"]) }]

\* A function that had set request.method where the code spreads.
RequestAfterPolicyFor_Assigned(request) ==
  IF MethodOf(request) \in {"GET", "HEAD"}
    THEN request
    ELSE [request EXCEPT !.method = "HEAD"]

\* The request object after requestDeduplicationPolicyFor has run on it:
\* { ...request, method: 'GET' } and { ...request, method: 'HEAD' } are new
\* objects, and nothing is assigned to the request passed in.
RequestAfterPolicyFor(request) == request

\* The override of requestDeduplicationPolicyFor that the tests and the
\* changelog give to get deduplicate-until-invalidated: it keeps the key.
PolicyFor(url, request) ==
  LET p == RequestDeduplicationPolicyFor(url, request) IN
  IF request.untilInvalidated /\ p.policy = "deduplicate-during-request-lifetime"
    THEN [p EXCEPT !.policy = "deduplicate-until-invalidated"]
    ELSE p

IsSharing(policy) ==
  policy.policy \in {"deduplicate-during-request-lifetime",
                     "deduplicate-until-invalidated"}

\* Every key the deduplicationPromises map can hold in this model.
DedupKeys == { CacheKeyFor(TheURL, r) : r \in Requests } \cup { ExplicitCacheKey }

OtherURL == "https://api.example.com/foo/2"

URLs == { TheURL, OtherURL }

\* The requests that go through the store: every method, with and without
\* an explicit cacheKey.
StoreRequests ==
  { [method |-> m, cacheKey |-> k, untilInvalidated |-> FALSE,
      instance |-> TheInstance] :
      m \in Methods, k \in { NoCacheKey, ExplicitCacheKey } }

\* The keys of the store.
StoreKeys == { CacheKeyFor(u, r) : u \in URLs, r \in StoreRequests }

(***************************************************************************)
(* State.                                                                  *)
(***************************************************************************)
VARIABLES
  nstarted,               \* calls 1..nstarted have run fetch up to its dedup step
  request,                \* request[c]: the outgoing request of call c
  pc,                     \* where call c is: idle, owner, waiter, solo, done
  promise,                \* promise[c]: state of the performRequest() promise call c created
  deduplicationPromises,  \* the Map: key -> the call whose promise is stored (NoCall: absent)
  servedBy,               \* the call whose promise call c awaits (itself when it started one)
  outcome,                \* how call c's fetch ended: pending, fulfilled, rejected
  error,                  \* the call whose promise's rejection call c rejected with
  deduplicated,           \* requestDeduplication.deduplicatedAgainstPreviousRequest of c's result
  parsedBody,             \* the object (a reference) call c received as parsedBody
  mutatedObjects,         \* the body objects some caller has changed in place
  mutators,               \* history: the calls that changed the body they received
  registeredSince         \* history: per key, the promises registered since its last invalidation

dedupVars ==
  << nstarted, request, pc, promise, deduplicationPromises, servedBy, outcome,
     error, deduplicated, parsedBody, mutatedObjects, mutators,
     registeredSince >>

\* No error.
NoError == "none"

\* HTTPCache: the persistent store behind it and the fetches running on it.
VARIABLES
  now,                    \* the clock, in whole seconds
  nfetches,               \* the number of fetches called so far
  keyValueCache,          \* the store's entry under the one cache key
  cacheWrites,            \* keyValueCache.set calls issued and not yet ended
  fetchPc,                \* where the current HTTPCache.fetch is (the await it is suspended at)
  fetchArgs,              \* its arguments: method, skipCache, cacheOptions
  fetchEntry,             \* its local variable entry (handlePolicyCache)
  fetchReturn,            \* what it returned (ResponseWithCacheWritePromise)
  httpFetchCalls,         \* history: the calls of this.httpFetch it made
  httpFetchStatus,        \* history: the status the origin answered it with
  cacheGets,              \* history: the calls of keyValueCache.get it made
  cacheSets,              \* history: the calls of keyValueCache.set it made
  cacheWritePromiseSettled, \* whether the cacheWritePromise it returned has completed
  cacheWritePromiseRejected, \* whether that handle has rejected with the write's error
  performRequestOutcome,  \* how the performRequest() around the last fetch ended
  performRequestError,    \* the error its promise rejected with
  encounteredError        \* the error didEncounterError was called with

cacheVars ==
  << now, nfetches, keyValueCache, cacheWrites, fetchPc, fetchArgs, fetchEntry, fetchReturn,
     httpFetchCalls, httpFetchStatus, cacheGets, cacheSets, cacheWritePromiseSettled,
     cacheWritePromiseRejected, performRequestOutcome, performRequestError,
     encounteredError >>

performVars == << performRequestOutcome, performRequestError, encounteredError >>

\* The arguments of cacheKeyFor and requestDeduplicationPolicyFor and what
\* their calls returned.
VARIABLES
  policyUrl,              \* the URL the two functions are called with
  policyRequest,          \* the request object they are called with
  cacheKeyResults,        \* what the calls of cacheKeyFor returned, in order
  policyResults           \* what the calls of requestDeduplicationPolicyFor returned

policyVars == << policyUrl, policyRequest, cacheKeyResults, policyResults >>

VARIABLES
  nstorefetches,          \* the number of fetches that went through performRequest
  stores,                 \* the persistent store: cache key -> whose response is kept there
  storeServed             \* the last fetch: its url and request, and the entry it was served from

storeVars == << nstorefetches, stores, storeServed >>

vars == << dedupVars, cacheVars, policyVars, storeVars >>

(***************************************************************************)
(* Objects.  performRequest of call c resolves to a result whose           *)
(* parsedBody is a new object; cloneDeep makes another new object.         *)
(***************************************************************************)
NoObject == 0

\* The parsedBody object of the result performRequest() of call c resolves to.
OriginalBodyOf(c) == c

\* A clone made for the callers served from the promise only: the call that
\* started the operation is handed the result's own body.
CloneParsedBody_NotForInitiator(body, c) ==
  IF body = c THEN body ELSE MaxCalls + c

\* A clone that hands out the object it was given (a shallow copy).
CloneParsedBody_SameObject(body, c) == body

\* cloneParsedBody (lodash cloneDeep): a new object, made for call c.
CloneParsedBody(body, c) == MaxCalls + c

Objects == 1..(2 * MaxCalls)

PolicyOf(c) == PolicyFor(TheURL, request[c])

Started == 1..nstarted

Settled(c) == promise[c] \in {"fulfilled", "rejected"}

(***************************************************************************)
(* The pieces of RESTDataSource.fetch that touch deduplicationPromises.    *)
(***************************************************************************)
\* One map for all the instances (a static field).
TableOf_Shared(instance) == TheInstance

\* this.deduplicationPromises: the field is initialized with a new Map in
\* every instance, so each instance has the map that is its own.
TableOf(instance) == instance

\* this.deduplicationPromises.get(policy.deduplicationKey)
PreviousRequestPromise(map, policy) == map[policy.deduplicationKey]

\* A caller that returns a promise nothing ever settles: no reaction is
\* added to the promise it found.
ThenOf_NoReaction(previousRequestPromise, map, policy) == NoCall

\* A waiter that looks the key up again when the promise it found settles.
ThenOf_LookedUpAgain(previousRequestPromise, map, policy) ==
  map[policy.deduplicationKey]

\* previousRequestPromise.then(...): the reaction is added to the promise
\* object the call read from the map at its dedup step, whatever the map
\* holds by the time the promise settles.
ThenOf(previousRequestPromise, map, policy) == previousRequestPromise

\* A registration put off to a later turn: the step ends with the map as
\* the check found it.
RegisterPromise_Later(map, policy, c) == map

\* this.deduplicationPromises.set(policy.deduplicationKey, thisRequestPromise)
RegisterPromise(map, policy, c) == [map EXCEPT ![policy.deduplicationKey] = c]

\* An invalidation that deletes nothing.
InvalidateKeys_Nothing(map, policy) == map

\* A loop that is left after its first removal, the rest of the keys waiting
\* for a later turn.
InvalidateKeys_OneKeyPerTurn(map, policy) ==
  IF policy.invalidateDeduplicationKeys = {} THEN map
  ELSE LET first == CHOOSE k \in policy.invalidateDeduplicationKeys :
                      \A l \in policy.invalidateDeduplicationKeys :
                         l # k => map[k] # NoCall \/ map[l] = NoCall
       IN  [map EXCEPT ![first] = NoCall]

\* for (const key of policy.invalidateDeduplicationKeys ?? []) delete(key)
InvalidateKeys(map, policy) ==
  [k \in DOMAIN map |->
     IF k \in policy.invalidateDeduplicationKeys THEN NoCall ELSE map[k]]

\* A fetch without the finally block: the key is never deleted.
FinallyDelete_Never(map, policy) == map

\* finally { if (policy is during-request-lifetime) delete(deduplicationKey) }
FinallyDelete(map, policy) ==
  IF policy.policy = "deduplicate-during-request-lifetime"
    THEN [map EXCEPT ![policy.deduplicationKey] = NoCall]
    ELSE map

\* A do-not-deduplicate call that also stores its own promise.
MapAfterNotDeduplicated_Registers(map, policy, c) ==
  [k \in DOMAIN map |->
     IF k \in policy.invalidateDeduplicationKeys THEN c ELSE map[k]]

\* The else branch of fetch: the listed keys are deleted, nothing is set.
MapAfterNotDeduplicated(map, policy, c) == InvalidateKeys(map, policy)

\* A result tagged as shared whoever receives it.
DeduplicatedAgainstPreviousRequest_Always(role) == TRUE

\* requestDeduplication.deduplicatedAgainstPreviousRequest in the result a
\* call builds: true in the .then of a promise found in the map, false after
\* the await of the call's own performRequest().
DeduplicatedAgainstPreviousRequest(role) == role = "waiter"

\* An await that swallows the rejection.
AwaitOutcome_Swallow(promiseState) == "fulfilled"

\* What awaiting a settled promise gives: its value, or its rejection thrown.
AwaitOutcome(promiseState) ==
  IF promiseState = "fulfilled" THEN "fulfilled" ELSE "rejected"

(***************************************************************************)
(* Init: a new RESTDataSource, no call made.                               *)
(***************************************************************************)
DedupInit ==
  /\ nstarted = 0
  /\ request = [c \in Calls |-> NoRequest]
  /\ pc = [c \in Calls |-> "idle"]
  /\ promise = [c \in Calls |-> "none"]
  /\ deduplicationPromises = [i \in Instances |-> [k \in DedupKeys |-> NoCall]]
  /\ servedBy = [c \in Calls |-> NoCall]
  /\ outcome = [c \in Calls |-> "pending"]
  /\ error = [c \in Calls |-> NoCall]
  /\ deduplicated = [c \in Calls |-> FALSE]
  /\ parsedBody = [c \in Calls |-> NoObject]
  /\ mutatedObjects = {}
  /\ mutators = {}
  /\ registeredSince = [i \in Instances |-> [k \in DedupKeys |-> {}]]

(***************************************************************************)
(* fetch, from requestDeduplicationPolicyFor to its first await.  The      *)
(* calls are numbered in the order in which they reach this step.          *)
(***************************************************************************)
\* A sharing policy and the key is in the map: wait for the stored promise.
StartDeduplicated(c, r) ==
  LET policy == PolicyFor(TheURL, r) IN
  /\ c = nstarted + 1
  /\ c <= MaxCalls
  /\ IsSharing(policy)
  /\ PreviousRequestPromise(deduplicationPromises[TableOf(r.instance)], policy) # NoCall
  /\ nstarted' = c
  /\ request' = [request EXCEPT ![c] = r]
  /\ pc' = [pc EXCEPT ![c] = "waiter"]
  /\ servedBy' = [servedBy EXCEPT ![c] = PreviousRequestPromise(deduplicationPromises[TableOf(r.instance)], policy)]
  /\ UNCHANGED << promise, deduplicationPromises, outcome, error, deduplicated,
                  parsedBody, mutatedObjects, mutators, registeredSince >>
  /\ UNCHANGED << cacheVars, policyVars, storeVars >>

\* A sharing policy and the key is not in the map: performRequest() and set.
StartOwner(c, r) ==
  LET policy == PolicyFor(TheURL, r) IN
  /\ c = nstarted + 1
  /\ c <= MaxCalls
  /\ IsSharing(policy)
  /\ PreviousRequestPromise(deduplicationPromises[TableOf(r.instance)], policy) = NoCall
  /\ nstarted' = c
  /\ request' = [request EXCEPT ![c] = r]
  /\ promise' = [promise EXCEPT ![c] = "pending"]
  /\ deduplicationPromises' =
       [deduplicationPromises EXCEPT ![TableOf(r.instance)] = RegisterPromise(@, policy, c)]
  /\ pc' = [pc EXCEPT ![c] = "owner"]
  /\ servedBy' = [servedBy EXCEPT ![c] = c]
  /\ registeredSince' =
       [registeredSince EXCEPT ![TableOf(r.instance)][policy.deduplicationKey] = @ \cup {c}]
  /\ UNCHANGED << outcome, error, deduplicated, parsedBody, mutatedObjects, mutators >>
  /\ UNCHANGED << cacheVars, policyVars, storeVars >>

\* do-not-deduplicate: delete the listed keys, then performRequest().
StartNotDeduplicated(c, r) ==
  LET policy == PolicyFor(TheURL, r) IN
  /\ c = nstarted + 1
  /\ c <= MaxCalls
  /\ ~IsSharing(policy)
  /\ nstarted' = c
  /\ request' = [request EXCEPT ![c] = r]
  /\ deduplicationPromises' =
       [deduplicationPromises EXCEPT
          ![TableOf(r.instance)] = MapAfterNotDeduplicated(@, policy, c)]
  /\ promise' = [promise EXCEPT ![c] = "pending"]
  /\ pc' = [pc EXCEPT ![c] = "solo"]
  /\ servedBy' = [servedBy EXCEPT ![c] = c]
  /\ registeredSince' =
       [registeredSince EXCEPT ![TableOf(r.instance)] =
          [k \in DedupKeys |->
             IF k \in policy.invalidateDeduplicationKeys THEN {} ELSE @[k]]]
  /\ UNCHANGED << outcome, error, deduplicated, parsedBody, mutatedObjects, mutators >>
  /\ UNCHANGED << cacheVars, policyVars, storeVars >>

(***************************************************************************)
(* performRequest settles: httpCache.fetch, parseBody and                  *)
(* throwIfResponseIsError have run; it resolves to a result or rejects.    *)
(* This is the settling of a promise that is (or was) in the map, which    *)
(* other calls may be waiting on; a do-not-deduplicate call's promise is   *)
(* seen by that call alone, and settles in SoloContinues.                  *)
(***************************************************************************)
PerformRequestSettles(c, how) ==
  /\ promise[c] = "pending"
  /\ pc[c] = "owner"
  /\ promise' = [promise EXCEPT ![c] = how]
  /\ UNCHANGED << nstarted, request, pc, deduplicationPromises, servedBy, outcome,
                  error, deduplicated, parsedBody, mutatedObjects, mutators, registeredSince >>
  /\ UNCHANGED << cacheVars, policyVars, storeVars >>

(***************************************************************************)
(* The continuations of fetch after its await.                             *)
(***************************************************************************)
\* The body object a clone of `body` holds: it is changed iff `body` was.
CopyContents(objects, from, to) ==
  IF from \in objects /\ to # from THEN objects \cup {to} ELSE objects

\* try { return clone(await thisRequestPromise, false) } finally { delete }
OwnerContinues(c) ==
  /\ pc[c] = "owner"
  /\ Settled(c)
  /\ pc' = [pc EXCEPT ![c] = "done"]
  /\ outcome' = [outcome EXCEPT ![c] = AwaitOutcome(promise[c])]
  /\ error' = [error EXCEPT ![c] = IF promise[c] = "rejected" THEN c ELSE NoCall]
  /\ deduplicated' = [deduplicated EXCEPT ![c] =
       promise[c] = "fulfilled" /\ DeduplicatedAgainstPreviousRequest(pc[c])]
  /\ parsedBody' = [parsedBody EXCEPT ![c] =
       IF promise[c] = "fulfilled"
         THEN CloneParsedBody(OriginalBodyOf(c), c) ELSE NoObject]
  /\ mutatedObjects' =
       IF promise[c] = "fulfilled"
         THEN CopyContents(mutatedObjects, OriginalBodyOf(c),
                           CloneParsedBody(OriginalBodyOf(c), c))
         ELSE mutatedObjects
  /\ deduplicationPromises' =
       [deduplicationPromises EXCEPT
          ![TableOf(request[c].instance)] = FinallyDelete(@, PolicyOf(c))]
  /\ UNCHANGED << nstarted, request, promise, servedBy, mutators, registeredSince >>
  /\ UNCHANGED << cacheVars, policyVars, storeVars >>

\* previousRequestPromise.then(result => clone(result, true)).  The promise's
\* reactions run in the order they were added, the owner's await first.
WaiterContinues(c) ==
  LET o == ThenOf(servedBy[c], deduplicationPromises[TableOf(request[c].instance)],
                  PolicyOf(c)) IN
  /\ pc[c] = "waiter"
  /\ o \in Calls
  /\ Settled(o)
  /\ pc[o] = "done"
  /\ pc' = [pc EXCEPT ![c] = "done"]
  /\ outcome' = [outcome EXCEPT ![c] = AwaitOutcome(promise[o])]
  /\ error' = [error EXCEPT ![c] = IF promise[o] = "rejected" THEN o ELSE NoCall]
  /\ deduplicated' = [deduplicated EXCEPT ![c] =
       promise[o] = "fulfilled" /\ DeduplicatedAgainstPreviousRequest(pc[c])]
  /\ parsedBody' = [parsedBody EXCEPT ![c] =
       IF promise[o] = "fulfilled"
         THEN CloneParsedBody(OriginalBodyOf(o), c) ELSE NoObject]
  /\ mutatedObjects' =
       IF promise[o] = "fulfilled"
         THEN CopyContents(mutatedObjects, OriginalBodyOf(o),
                           CloneParsedBody(OriginalBodyOf(o), c))
         ELSE mutatedObjects
  /\ UNCHANGED << nstarted, request, promise, deduplicationPromises, servedBy,
                  mutators, registeredSince >>
  /\ UNCHANGED << cacheVars, policyVars, storeVars >>

\* return { ...(await performRequest()), requestDeduplication: {policy, false} }
\* The call's own performRequest() settles and the call continues.
SoloContinues(c, how) ==
  /\ pc[c] = "solo"
  /\ promise[c] = "pending"
  /\ promise' = [promise EXCEPT ![c] = how]
  /\ pc' = [pc EXCEPT ![c] = "done"]
  /\ outcome' = [outcome EXCEPT ![c] = AwaitOutcome(how)]
  /\ error' = [error EXCEPT ![c] = IF how = "rejected" THEN c ELSE NoCall]
  /\ deduplicated' = [deduplicated EXCEPT ![c] =
       how = "fulfilled" /\ DeduplicatedAgainstPreviousRequest(pc[c])]
  /\ parsedBody' = [parsedBody EXCEPT ![c] =
       IF how = "fulfilled" THEN OriginalBodyOf(c) ELSE NoObject]
  /\ UNCHANGED << nstarted, request, deduplicationPromises, servedBy,
                  mutatedObjects, mutators, registeredSince >>
  /\ UNCHANGED << cacheVars, policyVars, storeVars >>

\* The caller of call c changes the parsedBody it was given, in place
\* (result.parsedBody.foo.shift() in the tests).
CallerMutatesBody(c) ==
  /\ pc[c] = "done"
  /\ outcome[c] = "fulfilled"
  /\ c \notin mutators
  /\ mutatedObjects' = mutatedObjects \cup {parsedBody[c]}
  /\ mutators' = mutators \cup {c}
  /\ UNCHANGED << nstarted, request, pc, promise, deduplicationPromises, servedBy,
                  outcome, error, deduplicated, parsedBody, registeredSince >>
  /\ UNCHANGED << cacheVars, policyVars, storeVars >>

(***************************************************************************)
(* HTTPCache.fetch, for one resource under one cache key.  The policy      *)
(* engine (http-cache-semantics) and the store (KeyValueCache) are         *)
(* libraries: a response carries the answers the policy engine gives about *)
(* it, and the store keeps one value with a time to live.  The caller      *)
(* awaits each fetch before the next; store writes run in the background,  *)
(* one at a time: a set has ended when the next set is called, and ends    *)
(* within the second it was called in.                                     *)
(***************************************************************************)
\* Number of HTTPCache.fetch calls made on the one cache.
MaxFetches == 2

\* The last second of the clock.
MaxTime == 1

\* cacheOptions.ttl: undefined, 0, or a positive number of seconds.
NoTtl == -1
TtlOverride == 1
Ttls == {NoTtl, 0, TtlOverride}

\* JavaScript truthiness of an optional number.
Truthy(ttl) == ttl # NoTtl /\ ttl # 0

Bodies == {1, 2}
NoBody == 0

\* policy.timeToLive(), in milliseconds.
TimeToLives == {400, 1000}

\* A rounding that would go up to the next whole second.
RoundToSeconds_Up(ms) == (ms + 999) \div 1000

\* Math.round(ms / 1000)
RoundToSeconds(ms) == (ms + 500) \div 1000

StatusOK == 200
StatusNotModified == 304
StatusNotFound == 404

\* What the origin answers, with what the policy engine makes of it:
\* storable is policy.storable(), timeToLive is policy.timeToLive(), and
\* validator says whether the response has an ETag or Last-Modified header.
OriginResponses ==
  [ status : {StatusOK, StatusNotFound}, body : Bodies, storable : BOOLEAN,
    timeToLive : TimeToLives, validator : BOOLEAN ]

\* A conditional request can also be answered with 304 Not Modified.
RevalidationResponses ==
  [ status : {StatusOK, StatusNotModified, StatusNotFound}, body : Bodies,
    storable : BOOLEAN, timeToLive : TimeToLives, validator : BOOLEAN ]

\* The values cacheOptions can have: a function is modelled by the value it
\* returns.  An undefined cacheOptions is the value without ttl or strategy.
CacheOptionsValues == [ ttl : Ttls, cacheStrategy : {"default", "object"} ]

\* The arguments of the fetches: every method with every ttl, static or from
\* a function; skipCache where fetch reads it (not for HEAD, not with a
\* function); the 'object' strategy for GET, with or without a positive ttl.
\* noCacheHeader says that the request's headers (cache-control: no-cache)
\* forbid answering it from a stored response without asking the origin; it
\* is given where fetch hands the request's headers to the freshness check.
FetchArguments ==
  { args \in [ method : Methods, skipCache : BOOLEAN, noCacheHeader : BOOLEAN,
               cacheOptionsIsFunction : BOOLEAN, cacheOptions : CacheOptionsValues ] :
      /\ args.skipCache => args.method # "HEAD" /\ ~args.cacheOptionsIsFunction
      /\ args.cacheOptions.cacheStrategy = "object" =>
            args.method = "GET" /\ args.cacheOptions.ttl # 0
      /\ args.noCacheHeader =>
            /\ args.method # "HEAD" /\ ~args.cacheOptionsIsFunction
            /\ ~args.skipCache /\ args.cacheOptions.cacheStrategy = "default" }

NoFetchArguments ==
  [ method |-> "none", skipCache |-> FALSE, noCacheHeader |-> FALSE,
    cacheOptionsIsFunction |-> FALSE,
    cacheOptions |-> [ttl |-> NoTtl, cacheStrategy |-> "default"] ]

\* The values the store keeps: a PolicyCacheEntry (kind "policy": the policy,
\* ttlOverride and body), or a parsed body stored as it is (kind "object").
NoValue ==
  [ kind |-> "none", body |-> NoBody, status |-> 0, ttlOverride |-> NoTtl,
    timeToLive |-> 0, responseTime |-> 0, validator |-> FALSE ]

PolicyCacheEntry(response, body, ttlOverride, time) ==
  [ kind |-> "policy", body |-> body, status |-> response.status,
    ttlOverride |-> ttlOverride, timeToLive |-> response.timeToLive,
    responseTime |-> time, validator |-> response.validator ]

ObjectValue(body) == [ NoValue EXCEPT !.kind = "object", !.body = body ]

\* The store's slot: a value, the ttl it was set with, and when it was set.
EmptySlot == [ value |-> NoValue, ttl |-> 0, writtenAt |-> 0 ]

\* keyValueCache.get(cacheKey): the value, or undefined once its ttl has run out.
KeyValueCacheGet(slot, time) ==
  IF slot.value.kind # "none" /\ time - slot.writtenAt < slot.ttl
  THEN slot.value ELSE NoValue

\* ResponseWithCacheWritePromise.
NoReturn ==
  [ status |-> 0, body |-> NoBody, parsedBody |-> NoBody, cacheWritePromise |-> FALSE ]

ReturnOf(status, body, parsed, writePromise) ==
  [ status |-> status, body |-> body, parsedBody |-> parsed,
    cacheWritePromise |-> writePromise ]

CacheInit ==
  /\ now = 0
  /\ nfetches = 0
  /\ keyValueCache = EmptySlot
  /\ cacheWrites = {}
  /\ fetchPc = "idle"
  /\ fetchArgs = NoFetchArguments
  /\ fetchEntry = NoValue
  /\ fetchReturn = NoReturn
  /\ httpFetchCalls = 0
  /\ httpFetchStatus = 0
  /\ cacheGets = 0
  /\ cacheSets = 0
  /\ cacheWritePromiseSettled = FALSE
  /\ cacheWritePromiseRejected = FALSE
  /\ performRequestOutcome = "pending"
  /\ performRequestError = NoError
  /\ encounteredError = NoError

\* A fetch that never looks at the store: HEAD goes straight to the origin.
BypassesCache_Never(method) == FALSE

\* if (requestOpts.method === 'HEAD')
BypassesCache(method) == method = "HEAD"

\* The first await of fetch: which call it has made and is suspended on.
FirstAwait(args) ==
  IF BypassesCache(args.method) THEN "httpFetch:head"
  ELSE IF args.cacheOptionsIsFunction THEN "httpFetch:function"
  ELSE IF args.cacheOptions.cacheStrategy = "object"
       THEN (IF args.skipCache THEN "httpFetch:skip" ELSE "get:direct")
       ELSE (IF args.skipCache THEN "httpFetch:cold" ELSE "get:policy")

HttpFetchAwaits ==
  { "httpFetch:head", "httpFetch:function", "httpFetch:skip", "httpFetch:direct",
    "httpFetch:cold", "httpFetch:revalidation" }

GetAwaits == { "get:direct", "get:policy" }

\* A fetch that asks the origin a second time for the same answer.
HttpFetchCalled_Twice(calls) == calls + 2

\* await this.httpFetch(urlString, requestOpts): one call of the origin more.
HttpFetchCalled(calls) == calls + 1

\* fetch is called and runs to its first await.
FetchBegins(args) ==
  /\ fetchPc = "idle"
  /\ nfetches < MaxFetches
  /\ nfetches' = nfetches + 1
  /\ fetchArgs' = args
  /\ fetchPc' = FirstAwait(args)
  /\ fetchEntry' = NoValue
  /\ fetchReturn' = NoReturn
  /\ httpFetchCalls' = IF FirstAwait(args) \in HttpFetchAwaits THEN HttpFetchCalled(0) ELSE 0
  /\ httpFetchStatus' = 0
  /\ cacheGets' = IF FirstAwait(args) \in GetAwaits THEN 1 ELSE 0
  /\ cacheSets' = 0
  /\ cacheWritePromiseSettled' = FALSE
  /\ cacheWritePromiseRejected' = FALSE
  /\ performRequestOutcome' = "pending"
  /\ performRequestError' = NoError
  /\ encounteredError' = NoError
  /\ UNCHANGED << now, keyValueCache, cacheWrites >>
  /\ UNCHANGED << dedupVars, policyVars, storeVars >>

\* this.httpFetch rejects (a network error): no await of it is in a try.
HttpFetchRejects ==
  /\ fetchPc \in HttpFetchAwaits
  /\ fetchPc' = "rejected"
  /\ UNCHANGED << cacheWritePromiseRejected, cacheWritePromiseSettled, now, nfetches, keyValueCache, cacheWrites, fetchArgs, fetchEntry, fetchReturn,
                  httpFetchCalls, httpFetchStatus, cacheGets, cacheSets >>
  /\ UNCHANGED performVars
  /\ UNCHANGED << dedupVars, policyVars, storeVars >>

\* A get inside a try whose catch goes on as if nothing were stored.
AfterGetRejects_Miss(at) ==
  IF at = "get:direct" THEN "httpFetch:direct" ELSE "httpFetch:cold"

\* Where fetch is once the get it awaits has rejected: the await is in no
\* try, so the rejection is fetch's own.
AfterGetRejects(at) == "rejected"

\* keyValueCache.get rejects: no await of it is in a try either.
KeyValueCacheGetRejects ==
  /\ fetchPc \in GetAwaits
  /\ fetchPc' = AfterGetRejects(fetchPc)
  /\ UNCHANGED << cacheWritePromiseRejected, cacheWritePromiseSettled, now, nfetches, keyValueCache, cacheWrites, fetchArgs, fetchEntry, fetchReturn,
                  httpFetchCalls, httpFetchStatus, cacheGets, cacheSets >>
  /\ UNCHANGED performVars
  /\ UNCHANGED << dedupVars, policyVars, storeVars >>

\* return { response: await this.httpFetch(urlString, requestOpts) }
HeadResponds(response) ==
  /\ fetchPc = "httpFetch:head"
  /\ fetchPc' = "returned"
  /\ httpFetchStatus' = response.status
  /\ fetchReturn' = ReturnOf(response.status, response.body, NoBody, FALSE)
  /\ UNCHANGED << cacheWritePromiseRejected, cacheWritePromiseSettled, now, nfetches, keyValueCache, cacheWrites, fetchArgs, fetchEntry,
                  httpFetchCalls, cacheGets, cacheSets >>
  /\ UNCHANGED performVars
  /\ UNCHANGED << dedupVars, policyVars, storeVars >>

\* keyValueCache.set(cacheKey, value, {ttl}), as issued: it ends later.
CacheWrite(value, ttl) == [ value |-> value, ttl |-> ttl ]

\* A handle that would not be chained to the write: complete from the start.
SettledWhenIssued_Resolved(writes) == TRUE

\* cacheWritePromise is keyValueCache.set(...).catch(...): it has completed
\* when fetch returns only if no write is left to wait for.
SettledWhenIssued(writes) == writes = {}

\* The write whose end completes the handle that fetch has returned.
SettlesCacheWritePromise == fetchPc = "returned" /\ fetchReturn.cacheWritePromise

\* The 'object' strategy after the origin answered: the parsed body is
\* returned, and stored as it is if a ttl is provided.
ReturnParsedBody(response, cacheOptions) ==
  IF Truthy(cacheOptions.ttl)
  THEN /\ cacheWrites = {}
       /\ cacheWrites' = { CacheWrite(ObjectValue(response.body), cacheOptions.ttl) }
       /\ cacheSets' = cacheSets + 1
       /\ cacheWritePromiseSettled' = SettledWhenIssued(cacheWrites')
       /\ cacheWritePromiseRejected' = FALSE
       /\ fetchReturn' = ReturnOf(response.status, response.body, response.body, TRUE)
  ELSE /\ fetchReturn' = ReturnOf(response.status, response.body, response.body, FALSE)
       /\ UNCHANGED << cacheWrites, cacheSets, cacheWritePromiseSettled, cacheWritePromiseRejected >>

\* A store decision that forgot to look at the request method.
Eligible_AnyMethod(method, response, ttlOverride) ==
  \/ Truthy(ttlOverride) /\ response.status >= 200 /\ response.status <= 299
  \/ response.storable

\* A store decision that knew only the rule of GET and storability.
Eligible_StorableOnly(method, response, ttlOverride) ==
  method = "GET" /\ response.storable

\* (ttlOverride && 2xx) || (method === 'GET' && policy.storable())
Eligible(method, response, ttlOverride) ==
  \/ Truthy(ttlOverride) /\ response.status >= 200 /\ response.status <= 299
  \/ method = "GET" /\ response.storable

\* ttlOverride ?? Math.round(policy.timeToLive() / 1000)
EffectiveTtl(response, ttlOverride) ==
  IF ttlOverride # NoTtl THEN ttlOverride ELSE RoundToSeconds(response.timeToLive)

CanBeRevalidated(response) == response.validator

\* A write that would hand the effective TTL to the store as it is.
StoreTtl_Plain(response, ttl) == ttl

\* canBeRevalidated(response) ? ttl * 2 : ttl
StoreTtl(response, ttl) == IF CanBeRevalidated(response) THEN ttl * 2 ELSE ttl

StoreResponseAndReturnClone(response, body, cacheOptions) ==
  LET ttlOverride == cacheOptions.ttl
      ttl == EffectiveTtl(response, ttlOverride)
  IN  IF ~Eligible(fetchArgs.method, response, ttlOverride) \/ ttl <= 0
      THEN /\ fetchReturn' = ReturnOf(response.status, body, NoBody, FALSE)
           /\ UNCHANGED << cacheWrites, cacheSets, cacheWritePromiseSettled, cacheWritePromiseRejected >>
      ELSE /\ cacheWrites = {}
           /\ cacheWrites' =
                { CacheWrite(PolicyCacheEntry(response, body, ttlOverride, now),
                             StoreTtl(response, ttl)) }
           /\ cacheSets' = cacheSets + 1
           /\ cacheWritePromiseSettled' = SettledWhenIssued(cacheWrites')
           /\ cacheWritePromiseRejected' = FALSE
           /\ fetchReturn' = ReturnOf(response.status, body, NoBody, TRUE)

\* cacheOptions is a function: the origin is asked first, then the function.
FunctionResponds(response) ==
  /\ fetchPc = "httpFetch:function"
  /\ fetchPc' = "returned"
  /\ httpFetchStatus' = response.status
  /\ IF fetchArgs.cacheOptions.cacheStrategy = "object"
     THEN ReturnParsedBody(response, fetchArgs.cacheOptions)
     ELSE StoreResponseAndReturnClone(response, response.body, fetchArgs.cacheOptions)
  /\ UNCHANGED << now, nfetches, keyValueCache, fetchArgs, fetchEntry, httpFetchCalls, cacheGets >>
  /\ UNCHANGED performVars
  /\ UNCHANGED << dedupVars, policyVars, storeVars >>

\* handleDirectCache with skipCache: the parsed body, and nothing stored.
DirectSkipResponds(response) ==
  /\ fetchPc = "httpFetch:skip"
  /\ fetchPc' = "returned"
  /\ httpFetchStatus' = response.status
  /\ fetchReturn' = ReturnOf(response.status, response.body, response.body, FALSE)
  /\ UNCHANGED << cacheWritePromiseRejected, cacheWritePromiseSettled, now, nfetches, keyValueCache, cacheWrites, fetchArgs, fetchEntry,
                  httpFetchCalls, cacheGets, cacheSets >>
  /\ UNCHANGED performVars
  /\ UNCHANGED << dedupVars, policyVars, storeVars >>

\* handleDirectCache: keyValueCache.get answers.
DirectGetReturns ==
  /\ fetchPc = "get:direct"
  /\ LET cachedValue == KeyValueCacheGet(keyValueCache, now)
     IN  IF cachedValue.kind # "none"
         THEN /\ fetchPc' = "returned"
              /\ fetchReturn' = ReturnOf(StatusOK, NoBody, cachedValue.body, FALSE)
              /\ UNCHANGED httpFetchCalls
         ELSE /\ fetchPc' = "httpFetch:direct"
              /\ httpFetchCalls' = HttpFetchCalled(httpFetchCalls)
              /\ UNCHANGED fetchReturn
  /\ UNCHANGED << cacheWritePromiseRejected, cacheWritePromiseSettled, now, nfetches, keyValueCache, cacheWrites, fetchArgs, fetchEntry,
                  httpFetchStatus,
                  cacheGets, cacheSets >>
  /\ UNCHANGED performVars
  /\ UNCHANGED << dedupVars, policyVars, storeVars >>

\* handleDirectCache: the origin answers after a miss.
DirectResponds(response) ==
  /\ fetchPc = "httpFetch:direct"
  /\ fetchPc' = "returned"
  /\ httpFetchStatus' = response.status
  /\ ReturnParsedBody(response, fetchArgs.cacheOptions)
  /\ UNCHANGED << now, nfetches, keyValueCache, fetchArgs, fetchEntry, httpFetchCalls, cacheGets >>
  /\ UNCHANGED performVars
  /\ UNCHANGED << dedupVars, policyVars, storeVars >>

\* policy.age(), in seconds.
AgeOf(entry, time) == time - entry.responseTime

\* policy.satisfiesWithoutRevalidation(request): the headers of the request
\* at hand allow a stored response, and the stored response is still within
\* the lifetime the policy engine gave it.
SatisfiesWithoutRevalidation(entry, args, time) ==
  ~args.noCacheHeader /\ AgeOf(entry, time) * 1000 < entry.timeToLive

\* (ttlOverride && age < ttlOverride) || (!ttlOverride && satisfies...)
ServedFromStore(entry, args, time) ==
  \/ Truthy(entry.ttlOverride) /\ AgeOf(entry, time) < entry.ttlOverride
  \/ ~Truthy(entry.ttlOverride) /\ SatisfiesWithoutRevalidation(entry, args, time)

\* handlePolicyCache: keyValueCache.get answers.  No entry: a cold fetch.  A
\* value that is not a serialized PolicyCacheEntry: JSON.parse throws.  An
\* entry that can be served: it is the response.  Otherwise: a revalidation.
PolicyGetReturns ==
  /\ fetchPc = "get:policy"
  /\ LET entry == KeyValueCacheGet(keyValueCache, now)
     IN  CASE entry.kind = "none" ->
                /\ fetchPc' = "httpFetch:cold"
                /\ httpFetchCalls' = HttpFetchCalled(httpFetchCalls)
                /\ UNCHANGED << fetchEntry, fetchReturn >>
           [] entry.kind = "object" ->
                /\ fetchPc' = "rejected"
                /\ UNCHANGED << fetchEntry, fetchReturn, httpFetchCalls >>
           [] entry.kind = "policy" /\ ServedFromStore(entry, fetchArgs, now) ->
                /\ fetchPc' = "returned"
                /\ fetchReturn' = ReturnOf(entry.status, entry.body, NoBody, FALSE)
                /\ UNCHANGED << fetchEntry, httpFetchCalls >>
           [] entry.kind = "policy" /\ ~ServedFromStore(entry, fetchArgs, now) ->
                /\ fetchPc' = "httpFetch:revalidation"
                /\ fetchEntry' = entry
                /\ httpFetchCalls' = HttpFetchCalled(httpFetchCalls)
                /\ UNCHANGED fetchReturn
  /\ UNCHANGED << cacheWritePromiseRejected, cacheWritePromiseSettled, now, nfetches, keyValueCache, cacheWrites, fetchArgs, httpFetchStatus,
                  cacheGets, cacheSets >>
  /\ UNCHANGED performVars
  /\ UNCHANGED << dedupVars, policyVars, storeVars >>

\* handlePolicyCache: the origin answers a cold fetch (no entry, or skipCache).
ColdResponds(response) ==
  /\ fetchPc = "httpFetch:cold"
  /\ fetchPc' = "returned"
  /\ httpFetchStatus' = response.status
  /\ StoreResponseAndReturnClone(response, response.body, fetchArgs.cacheOptions)
  /\ UNCHANGED << now, nfetches, keyValueCache, fetchArgs, fetchEntry, httpFetchCalls, cacheGets >>
  /\ UNCHANGED performVars
  /\ UNCHANGED << dedupVars, policyVars, storeVars >>

\* policy.revalidatedPolicy(...).modified
Modified(response) == response.status # StatusNotModified

\* The response built from the revalidated policy: on 304 it keeps the
\* stored status, and the stored body is used.
RevalidatedResponse(entry, response) ==
  [ response EXCEPT !.status = IF Modified(response) THEN response.status
                               ELSE entry.status ]

\* A revalidation that would always use the stored body.
RevalidatedBody_Stored(entry, response) == entry.body

\* A revalidation that would always use the text of the origin's answer.
RevalidatedBody_New(entry, response) == response.body

\* modified ? await revalidationResponse.text() : body
RevalidatedBody(entry, response) ==
  IF Modified(response) THEN response.body ELSE entry.body

\* handlePolicyCache: the origin answers the conditional request.
RevalidationResponds(response) ==
  /\ fetchPc = "httpFetch:revalidation"
  /\ fetchPc' = "returned"
  /\ httpFetchStatus' = response.status
  /\ StoreResponseAndReturnClone(RevalidatedResponse(fetchEntry, response),
                                 RevalidatedBody(fetchEntry, response),
                                 fetchArgs.cacheOptions)
  /\ UNCHANGED << now, nfetches, keyValueCache, fetchArgs, fetchEntry, httpFetchCalls, cacheGets >>
  /\ UNCHANGED performVars
  /\ UNCHANGED << dedupVars, policyVars, storeVars >>

\* response.ok
ResponseOk(status) == status >= 200 /\ status <= 299

\* A try block that did not look at the status of the response.
ThrownInTry_StatusIgnored(at, status) == IF at = "rejected" THEN "FetchError" ELSE NoError

\* What the try block of performRequest ends with: the error httpCache.fetch
\* rejected with, the GraphQLError throwIfResponseIsError makes of a response
\* that is not ok, or nothing.
ThrownInTry(at, status) ==
  IF at = "rejected" THEN "FetchError"
  ELSE IF ResponseOk(status) THEN NoError ELSE "GraphQLError"

\* catch (error) { this.didEncounterError(error, ...); throw error; }: the
\* hook's own error when it throws, the error it was given otherwise.
ThrownByCatch(thrown, hookThrows) == IF hookThrows THEN "HookError" ELSE thrown

\* performRequest goes on with what fetch gave it (or with the error): it
\* reads the body, throws if the response is an error, and settles.  The
\* subclass's didEncounterError either returns or throws its own error.
CallerContinues(hookThrows) ==
  /\ fetchPc \in {"returned", "rejected"}
  /\ LET thrown == ThrownInTry(fetchPc, fetchReturn.status) IN
       IF thrown = NoError
       THEN /\ performRequestOutcome' = "fulfilled"
            /\ performRequestError' = NoError
            /\ encounteredError' = NoError
       ELSE /\ performRequestOutcome' = "rejected"
            /\ encounteredError' = thrown
            /\ performRequestError' = ThrownByCatch(thrown, hookThrows)
  /\ fetchPc' = "idle"
  /\ fetchArgs' = NoFetchArguments
  /\ fetchEntry' = NoValue
  /\ fetchReturn' = NoReturn
  /\ httpFetchCalls' = 0
  /\ httpFetchStatus' = 0
  /\ cacheGets' = 0
  /\ cacheSets' = 0
  /\ cacheWritePromiseSettled' = FALSE
  /\ cacheWritePromiseRejected' = FALSE
  /\ UNCHANGED << now, nfetches, keyValueCache, cacheWrites >>
  /\ UNCHANGED << dedupVars, policyVars, storeVars >>

\* A keyValueCache.set ends well: the store has the value from now on.
CacheWriteLands(write) ==
  /\ write \in cacheWrites
  /\ cacheWrites' = cacheWrites \ {write}
  /\ keyValueCache' = [ value |-> write.value, ttl |-> write.ttl, writtenAt |-> now ]
  /\ cacheWritePromiseSettled' = (cacheWritePromiseSettled \/ SettlesCacheWritePromise)
  /\ UNCHANGED cacheWritePromiseRejected
  /\ UNCHANGED << now, nfetches, fetchPc, fetchArgs, fetchEntry, fetchReturn,
                  httpFetchCalls, httpFetchStatus, cacheGets, cacheSets >>
  /\ UNCHANGED performVars
  /\ UNCHANGED << dedupVars, policyVars, storeVars >>

\* How keyValueCache.set(...).catch(error => console.error(...)) ends,
\* given how the set ended: the callback returns, so the chained promise,
\* which is the handle fetch returns, is fulfilled either way.
CatchOutcome(setOutcome) == "fulfilled"

\* A fetch that had awaited keyValueCache.set: the failure would be its own.
AfterWriteFailure_Awaited(at) == IF at = "idle" THEN at ELSE "rejected"

\* Where fetch is once a write it issued has failed: fetch never awaits the
\* write, it returns the handle, so it is where it was.
AfterWriteFailure(at) == at

\* A keyValueCache.set rejects: .catch logs the error, the store is as before.
CacheWriteFails(write) ==
  /\ write \in cacheWrites
  /\ cacheWrites' = cacheWrites \ {write}
  /\ cacheWritePromiseSettled' = (cacheWritePromiseSettled \/ SettlesCacheWritePromise)
  /\ cacheWritePromiseRejected' =
       ( cacheWritePromiseRejected
         \/ ( SettlesCacheWritePromise /\ CatchOutcome("rejected") = "rejected" ) )
  /\ fetchPc' = AfterWriteFailure(fetchPc)
  /\ UNCHANGED << now, nfetches, keyValueCache, fetchArgs, fetchEntry, fetchReturn,
                  httpFetchCalls, httpFetchStatus, cacheGets, cacheSets >>
  /\ UNCHANGED performVars
  /\ UNCHANGED << dedupVars, policyVars, storeVars >>

\* A second passes.
Tick ==
  /\ now < MaxTime
  /\ cacheWrites = {}
  /\ now' = now + 1
  /\ UNCHANGED << cacheWritePromiseRejected, cacheWritePromiseSettled, nfetches, keyValueCache, cacheWrites, fetchPc, fetchArgs, fetchEntry,
                  fetchReturn, httpFetchCalls, httpFetchStatus, cacheGets, cacheSets >>
  /\ UNCHANGED performVars
  /\ UNCHANGED << dedupVars, policyVars, storeVars >>

\* No call of the two functions is looked at.
NoPolicyCalls ==
  /\ policyUrl = TheURL
  /\ policyRequest = NoRequest
  /\ cacheKeyResults = << >>
  /\ policyResults = << >>

\* An empty slot of the store, and the request and URL a kept response
\* answered.
NotStored == [ method |-> "none", url |-> "none" ]

StoredFor(url, method) == [ method |-> method, url |-> url ]

NoStoreFetches ==
  /\ nstorefetches = 0
  /\ stores = [ k \in StoreKeys |-> NotStored ]
  /\ storeServed = [ url |-> "none", request |-> NoRequest, from |-> NotStored ]

Init == DedupInit /\ CacheInit /\ NoPolicyCalls /\ NoStoreFetches

\* One step of the data source: a call reaches its dedup step, a request
\* settles, or a continuation runs.
Next ==
  \/ \E c \in Calls, r \in Requests : StartDeduplicated(c, r)
  \/ \E c \in Calls, r \in Requests : StartOwner(c, r)
  \/ \E c \in Calls, r \in Requests : StartNotDeduplicated(c, r)
  \/ \E c \in Calls, how \in {"fulfilled", "rejected"} : PerformRequestSettles(c, how)
  \/ \E c \in Calls : OwnerContinues(c)
  \/ \E c \in Calls : WaiterContinues(c)
  \/ \E c \in Calls, how \in {"fulfilled", "rejected"} : SoloContinues(c, how)

Spec == Init /\ [][Next]_vars

\* The requests of the specification in which callers change the bodies they
\* receive: the GETs (under either sharing policy) and POSTs of one resource.
MutRequests == { r \in Requests : r.method \in {"GET", "POST"} }

MutNext ==
  \/ \E c \in Calls, r \in MutRequests : StartDeduplicated(c, r)
  \/ \E c \in Calls, r \in MutRequests : StartOwner(c, r)
  \/ \E c \in Calls, r \in MutRequests : StartNotDeduplicated(c, r)
  \/ \E c \in Calls, how \in {"fulfilled", "rejected"} : PerformRequestSettles(c, how)
  \/ \E c \in Calls : OwnerContinues(c)
  \/ \E c \in Calls : WaiterContinues(c)
  \/ \E c \in Calls, how \in {"fulfilled", "rejected"} : SoloContinues(c, how)
  \/ \E c \in Calls : CallerMutatesBody(c)

MutSpec == Init /\ [][MutNext]_vars

\* The requests of the specification with two data sources: GETs retained
\* until invalidated and POSTs of one resource, made on either instance.
InstanceRequests ==
  { [method |-> "GET", cacheKey |-> NoCacheKey, untilInvalidated |-> TRUE,
      instance |-> i] : i \in Instances }
  \cup
  { [method |-> "POST", cacheKey |-> NoCacheKey, untilInvalidated |-> FALSE,
      instance |-> i] : i \in Instances }

InstanceNext ==
  \/ \E c \in Calls, r \in InstanceRequests : StartDeduplicated(c, r)
  \/ \E c \in Calls, r \in InstanceRequests : StartOwner(c, r)
  \/ \E c \in Calls, r \in InstanceRequests : StartNotDeduplicated(c, r)
  \/ \E c \in Calls, how \in {"fulfilled", "rejected"} : PerformRequestSettles(c, how)
  \/ \E c \in Calls : OwnerContinues(c)
  \/ \E c \in Calls : WaiterContinues(c)
  \/ \E c \in Calls, how \in {"fulfilled", "rejected"} : SoloContinues(c, how)

InstanceSpec == Init /\ [][InstanceNext]_vars

\* The requests of the specification with an explicit cacheKey: a GET
\* retained until invalidated, a GET under the default policy, a HEAD and a
\* POST of one resource, all given the same cacheKey.
KeyRequests ==
  { [method |-> "GET", cacheKey |-> ExplicitCacheKey, untilInvalidated |-> TRUE,
     instance |-> TheInstance],
    [method |-> "GET", cacheKey |-> ExplicitCacheKey, untilInvalidated |-> FALSE,
     instance |-> TheInstance],
    [method |-> "HEAD", cacheKey |-> ExplicitCacheKey, untilInvalidated |-> FALSE,
     instance |-> TheInstance],
    [method |-> "POST", cacheKey |-> ExplicitCacheKey, untilInvalidated |-> FALSE,
     instance |-> TheInstance] }

KeyNext ==
  \/ \E c \in Calls, r \in KeyRequests : StartDeduplicated(c, r)
  \/ \E c \in Calls, r \in KeyRequests : StartOwner(c, r)
  \/ \E c \in Calls, r \in KeyRequests : StartNotDeduplicated(c, r)
  \/ \E c \in Calls, how \in {"fulfilled", "rejected"} : PerformRequestSettles(c, how)
  \/ \E c \in Calls : OwnerContinues(c)
  \/ \E c \in Calls : WaiterContinues(c)
  \/ \E c \in Calls, how \in {"fulfilled", "rejected"} : SoloContinues(c, how)

KeySpec == Init /\ [][KeyNext]_vars

(***************************************************************************)
(* cacheKeyFor and requestDeduplicationPolicyFor, called on a request of   *)
(* any method, with or without an explicit cacheKey.                       *)
(***************************************************************************)
\* How often each of the two functions is called on the same arguments.
MaxApplications == 2

PolicyMethods == { "none", "GET", "HEAD", "POST", "PUT", "PATCH", "DELETE" }

PolicyRequests ==
  { [method |-> m, cacheKey |-> k, untilInvalidated |-> FALSE,
      instance |-> TheInstance] :
      m \in PolicyMethods, k \in { NoCacheKey, ExplicitCacheKey } }

PolicyInit ==
  /\ DedupInit
  /\ CacheInit
  /\ policyUrl \in URLs
  /\ policyRequest \in PolicyRequests
  /\ cacheKeyResults = << >>
  /\ policyResults = << >>
  /\ NoStoreFetches

\* this.cacheKeyFor(url, request)
CallCacheKeyFor ==
  /\ Len(cacheKeyResults) < MaxApplications
  /\ cacheKeyResults' = Append(cacheKeyResults, CacheKeyFor(policyUrl, policyRequest))
  /\ UNCHANGED << policyUrl, policyRequest, policyResults >>
  /\ UNCHANGED << dedupVars, cacheVars, storeVars >>

\* this.requestDeduplicationPolicyFor(url, request)
CallRequestDeduplicationPolicyFor ==
  /\ Len(policyResults) < MaxApplications
  /\ policyResults' =
       Append(policyResults, RequestDeduplicationPolicyFor(policyUrl, policyRequest))
  /\ policyRequest' = RequestAfterPolicyFor(policyRequest)
  /\ UNCHANGED << policyUrl, cacheKeyResults >>
  /\ UNCHANGED << dedupVars, cacheVars, storeVars >>

PolicyNext ==
  \/ CallCacheKeyFor
  \/ CallRequestDeduplicationPolicyFor

PolicySpec == PolicyInit /\ [][PolicyNext]_vars

(***************************************************************************)
(* The store under its cache keys.  performRequest hands                   *)
(* cacheKeyFor(url, request) to HTTPCache.fetch, which reads and writes    *)
(* the store under that key only.  A kept response is remembered by the    *)
(* URL and method of the request it answered; a stored entry can be fresh  *)
(* (and then it is the answer) or not (and then the origin is asked).      *)
(***************************************************************************)
\* The number of fetches.
MaxStoreFetches == 3

\* One fetch through performRequest and HTTPCache.fetch with a static
\* cacheOptions: the key, the HEAD bypass, the lookup, and the store decision
\* on the origin's response.
PerformRequest(url, rq, ttlOverride, fresh, response) ==
  LET cacheKey == CacheKeyFor(url, rq)
      entry == stores[cacheKey]
  IN  /\ nstorefetches < MaxStoreFetches
      /\ nstorefetches' = nstorefetches + 1
      /\ IF ~BypassesCache(MethodOf(rq)) /\ entry # NotStored /\ fresh
         THEN /\ storeServed' = [ url |-> url, request |-> rq, from |-> entry ]
              /\ UNCHANGED stores
         ELSE /\ storeServed' = [ url |-> url, request |-> rq, from |-> NotStored ]
              /\ stores' =
                   IF /\ ~BypassesCache(MethodOf(rq))
                      /\ Eligible(MethodOf(rq), response, ttlOverride)
                      /\ EffectiveTtl(response, ttlOverride) > 0
                   THEN [ stores EXCEPT ![cacheKey] = StoredFor(url, MethodOf(rq)) ]
                   ELSE stores
      /\ UNCHANGED << dedupVars, cacheVars, policyVars >>

StoreNext ==
  \E url \in URLs, rq \in StoreRequests, ttlOverride \in Ttls, fresh \in BOOLEAN,
     response \in OriginResponses :
       PerformRequest(url, rq, ttlOverride, fresh, response)

StoreSpec == Init /\ [][StoreNext]_vars

\* The specification of the calls that end.  A behaviour follows either the
\* calls of fetch through their dedup step (GETs under either sharing policy
\* and POSTs of one resource, the performRequest of each taken as one
\* operation that settles), or performRequest's own steps through
\* HTTPCache.fetch.  Every origin fetch and every read of the store is
\* answered, with success or failure, and the event loop runs every
\* continuation whose promise has settled.
MaxLiveCalls == 3

\* The fetches through the cache layer: GET and HEAD, any strategy, with a
\* TTL override only under the 'object' strategy.
LiveFetchArguments ==
  { args \in FetchArguments :
      /\ args.method \in {"GET", "HEAD"}
      /\ args.cacheOptions.cacheStrategy = "default" => args.cacheOptions.ttl = NoTtl }

LiveRequests == { r \in Requests : r.method \in {"GET", "POST"} }

\* The origin or the store answers what HTTPCache.fetch awaits.
OriginOrStoreAnswers ==
  \/ HttpFetchRejects
  \/ KeyValueCacheGetRejects
  \/ \E response \in OriginResponses : HeadResponds(response)
  \/ \E response \in OriginResponses : FunctionResponds(response)
  \/ \E response \in OriginResponses : DirectSkipResponds(response)
  \/ DirectGetReturns
  \/ \E response \in OriginResponses : DirectResponds(response)
  \/ PolicyGetReturns
  \/ \E response \in OriginResponses : ColdResponds(response)
  \/ \E response \in RevalidationResponses : RevalidationResponds(response)

LiveNext ==
  \/ \E c \in 1..MaxLiveCalls, r \in LiveRequests :
        nfetches = 0 /\ StartDeduplicated(c, r)
  \/ \E c \in 1..MaxLiveCalls, r \in LiveRequests :
        nfetches = 0 /\ StartOwner(c, r)
  \/ \E c \in 1..MaxLiveCalls, r \in LiveRequests :
        nfetches = 0 /\ StartNotDeduplicated(c, r)
  \/ \E c \in Calls, how \in {"fulfilled", "rejected"} : PerformRequestSettles(c, how)
  \/ \E c \in Calls : OwnerContinues(c)
  \/ \E c \in Calls : WaiterContinues(c)
  \/ \E c \in Calls, how \in {"fulfilled", "rejected"} : SoloContinues(c, how)
  \/ \E args \in LiveFetchArguments : nstarted = 0 /\ FetchBegins(args)
  \/ OriginOrStoreAnswers
  \/ \E hookThrows \in BOOLEAN : CallerContinues(hookThrows)
  \/ \E write \in cacheWrites : CacheWriteLands(write)
  \/ \E write \in cacheWrites : CacheWriteFails(write)

EveryOperationCompletes ==
  /\ \A c \in Calls :
       /\ WF_vars(\E how \in {"fulfilled", "rejected"} : PerformRequestSettles(c, how))
       /\ WF_vars(\E how \in {"fulfilled", "rejected"} : SoloContinues(c, how))
  /\ WF_vars(OriginOrStoreAnswers)

EveryReactionRuns ==
  /\ \A c \in Calls : WF_vars(OwnerContinues(c)) /\ WF_vars(WaiterContinues(c))
  /\ WF_vars(\E hookThrows \in BOOLEAN : CallerContinues(hookThrows))

LiveSpec == Init /\ [][LiveNext]_vars /\ EveryOperationCompletes /\ EveryReactionRuns

\* One step of the cache layer.
CacheNext ==
  \/ \E args \in FetchArguments : FetchBegins(args)
  \/ HttpFetchRejects
  \/ KeyValueCacheGetRejects
  \/ \E response \in OriginResponses : HeadResponds(response)
  \/ \E response \in OriginResponses : FunctionResponds(response)
  \/ \E response \in OriginResponses : DirectSkipResponds(response)
  \/ DirectGetReturns
  \/ \E response \in OriginResponses : DirectResponds(response)
  \/ PolicyGetReturns
  \/ \E response \in OriginResponses : ColdResponds(response)
  \/ \E response \in RevalidationResponses : RevalidationResponds(response)
  \/ \E hookThrows \in BOOLEAN : CallerContinues(hookThrows)
  \/ \E write \in cacheWrites : CacheWriteLands(write)
  \/ \E write \in cacheWrites : CacheWriteFails(write)
  \/ Tick

CacheSpec == Init /\ [][CacheNext]_vars

(***************************************************************************)
(* Vocabulary of the claims about request deduplication.                   *)
(***************************************************************************)
DRL == "deduplicate-during-request-lifetime"
DUI == "deduplicate-until-invalidated"
DND == "do-not-deduplicate"

KeyOf(c) == PolicyOf(c).deduplicationKey

\* Call c started an operation of its own under a sharing policy.
IsOwner(c) == c \in Started /\ IsSharing(PolicyOf(c)) /\ servedBy[c] = c

\* Call c was served from an entry it found in the map.
IsWaiter(c) == c \in Started /\ servedBy[c] # c

\* Call c runs its dedup step in this very step.
StartsNow(c) == nstarted = c - 1 /\ nstarted' = c

\* C1: the calls that share one deduplication key under
\* deduplicate-during-request-lifetime and arrive before the first of them
\* completes (with no invalidation of the key between them) start one
\* operation between them, so the origin is fetched once: no two of them both
\* own an operation.
C1_OneFetchForConcurrentCalls ==
  \A k \in DedupKeys :
    Cardinality({ o \in registeredSince[TheInstance][k] :
                    PolicyOf(o).policy = DRL /\ pc[o] = "owner" }) <= 1

\* C2: for one deduplication key, at most one of the operations registered
\* under it since its last invalidation is in flight.
C2_AtMostOneOwnedOperation ==
  \A k \in DedupKeys :
    Cardinality({ o \in registeredSince[TheInstance][k] : promise[o] = "pending" }) <= 1

\* C3: two callers served from the same entry never hold the same body
\* object, and a body is changed only if the caller holding it changed it.
C3_IndependentCopies ==
  /\ \A c1, c2 \in Calls :
       ( c1 # c2 /\ outcome[c1] = "fulfilled" /\ outcome[c2] = "fulfilled"
         /\ servedBy[c1] = servedBy[c2] )
       => parsedBody[c1] # parsedBody[c2]
  /\ \A c \in Calls :
       (outcome[c] = "fulfilled" /\ c \notin mutators)
       => parsedBody[c] \notin mutatedObjects

\* C3, its case: two callers were served from one entry, one of them changed
\* its body and the other did not.
C3_Witness ==
  \E c1, c2 \in Calls :
    /\ c1 # c2
    /\ outcome[c1] = "fulfilled" /\ outcome[c2] = "fulfilled"
    /\ servedBy[c1] = servedBy[c2]
    /\ c1 \in mutators /\ c2 \notin mutators

\* A completed call that owned an operation under during-request-lifetime.
CompletedLifetimeOwner(o) ==
  IsOwner(o) /\ PolicyOf(o).policy = DRL /\ pc[o] = "done"

\* C4: the promise of a completed during-request-lifetime call (fulfilled or
\* rejected) is not in the map; a call that starts later is never served by
\* it; and when every earlier operation under its key was such a call, the
\* later call starts an operation of its own and its result is tagged
\* deduplicatedAgainstPreviousRequest = false.
C4_SequentialNotDeduplicated ==
  /\ [](\A o \in Calls : \A k \in DedupKeys :
          CompletedLifetimeOwner(o) => deduplicationPromises[TheInstance][k] # o)
  /\ [](\A c \in Calls : (IsOwner(c) /\ pc[c] = "done") => ~deduplicated[c])
  /\ [][ \A c \in Calls :
           (StartsNow(c) /\ IsSharing(PolicyFor(TheURL, request'[c])))
           => LET k == PolicyFor(TheURL, request'[c]).deduplicationKey
                  earlier == { o \in Started : IsOwner(o) /\ KeyOf(o) = k }
              IN /\ \A o \in earlier :
                      CompletedLifetimeOwner(o) => servedBy'[c] # o
                 /\ (\A o \in earlier : CompletedLifetimeOwner(o))
                      => (servedBy'[c] = c /\ promise'[c] = "pending") ]_vars

\* C4, its case: a during-request-lifetime call started an operation of its
\* own after an earlier one with the same key had been fulfilled and another
\* had been rejected.
C4_Witness ==
  \E a, b, c \in Calls :
    /\ a < c /\ b < c
    /\ CompletedLifetimeOwner(a) /\ outcome[a] = "fulfilled"
    /\ CompletedLifetimeOwner(b) /\ outcome[b] = "rejected"
    /\ IsOwner(c) /\ PolicyOf(c).policy = DRL
    /\ KeyOf(a) = KeyOf(c) /\ KeyOf(b) = KeyOf(c)

\* An until-invalidated operation that was fulfilled, whose call has
\* completed, and whose key no do-not-deduplicate call has listed since.
RetainedResult(o) ==
  /\ IsOwner(o) /\ PolicyOf(o).policy = DUI
  /\ pc[o] = "done" /\ outcome[o] = "fulfilled"
  /\ o \in registeredSince[TheInstance][KeyOf(o)]

\* C5: once an until-invalidated operation has completed successfully, every
\* later call with a sharing policy and the same key is served its result,
\* until a do-not-deduplicate call lists the key.
C5_SharedUntilInvalidated ==
  [][ \A c, o \in Calls :
        ( StartsNow(c) /\ RetainedResult(o)
          /\ IsSharing(PolicyFor(TheURL, request'[c]))
          /\ PolicyFor(TheURL, request'[c]).deduplicationKey = KeyOf(o) )
        => servedBy'[c] = o ]_vars

\* C6: a sharing call that starts after a do-not-deduplicate call listing its
\* key is served by an operation started after that call, never by an entry
\* registered before it.
C6_InvalidatedByNotDeduplicated ==
  \A p, g \in Started :
    ( p < g /\ PolicyOf(p).policy = DND /\ IsSharing(PolicyOf(g))
      /\ KeyOf(g) \in PolicyOf(p).invalidateDeduplicationKeys )
    => servedBy[g] > p

\* C6, its case: a GET is in flight, a POST to the same resource starts, and
\* the GET that starts next runs its own operation while the first GET is
\* still in flight.
C6_Witness ==
  \E a, p, g \in Started :
    /\ a < p /\ p < g
    /\ request[a].method = "GET" /\ request[g].method = "GET"
    /\ request[p].method = "POST"
    /\ promise[a] = "pending" /\ servedBy[g] = g

\* C7: a do-not-deduplicate call runs its own operation, its promise is never
\* in the map, no other call is served by it, and it is tagged not
\* deduplicated.
C7_NotDeduplicatedNeverShared ==
  \A c \in Started :
    PolicyOf(c).policy = DND
    => /\ servedBy[c] = c
       /\ promise[c] # "none"
       /\ \A k \in DedupKeys : deduplicationPromises[TheInstance][k] # c
       /\ \A d \in Started : d # c => servedBy[d] # c
       /\ ~deduplicated[c]

\* C7, its case: a do-not-deduplicate call is in flight while a later call
\* to the same resource starts.
C7_Witness ==
  \E c, d \in Started :
    /\ c < d
    /\ PolicyOf(c).policy = DND /\ promise[c] = "pending"
    /\ IsSharing(PolicyOf(d))

\* C8: when the promise an entry holds rejects, every call waiting on that
\* entry can continue (it is not stuck), and once it has continued it has
\* rejected with that very rejection, not succeeded.
C8_RejectionReachesWaiters ==
  \A c \in Calls :
    (IsWaiter(c) /\ promise[servedBy[c]] = "rejected")
    => /\ pc[c] = "waiter"
            => (ENABLED WaiterContinues(c) \/ ENABLED OwnerContinues(servedBy[c]))
       /\ pc[c] = "done"
            => (outcome[c] = "rejected" /\ error[c] = servedBy[c])

\* C8, its case: two calls waited on an entry whose operation rejected, and
\* both have ended.
C8_Witness ==
  \E c, d \in Calls :
    /\ c # d /\ IsWaiter(c) /\ IsWaiter(d)
    /\ servedBy[c] = servedBy[d]
    /\ promise[servedBy[c]] = "rejected"
    /\ pc[c] = "done" /\ pc[d] = "done"

\* C9: under deduplicate-until-invalidated, when the owning operation fails
\* and its call has completed, its entry is no longer in the map.
C9_FailedEntryRemoved ==
  \A o \in Calls : \A k \in DedupKeys :
    ( IsOwner(o) /\ PolicyOf(o).policy = DUI
      /\ pc[o] = "done" /\ outcome[o] = "rejected" )
    => deduplicationPromises[TheInstance][k] # o

(***************************************************************************)
(* Vocabulary of the claims about the cache layer.                         *)
(***************************************************************************)
\* The entry a lookup would find in the store now.
LiveEntry == KeyValueCacheGet(keyValueCache, now)

\* A GET with no options and no headers of its own.
PlainGet == [ NoFetchArguments EXCEPT !.method = "GET" ]

\* C10: a fetch with method HEAD goes straight to the origin: from its first
\* step on it has made exactly one origin call, it makes no read of and no
\* write to the persistent store, and what it returns has no cache-write
\* handle; this with or without a TTL override, and whatever the store holds.
C10_HeadBypassesCache ==
  fetchArgs.method = "HEAD" =>
    /\ httpFetchCalls = 1
    /\ cacheGets = 0
    /\ cacheSets = 0
    /\ fetchPc = "returned" => ~fetchReturn.cacheWritePromise

\* A HEAD fetch with a positive TTL override has returned a 2xx response
\* while the store holds an entry a GET would be served from.
C10_Witness ==
  /\ fetchPc = "returned"
  /\ fetchArgs.method = "HEAD"
  /\ Truthy(fetchArgs.cacheOptions.ttl)
  /\ fetchReturn.status = StatusOK
  /\ LiveEntry.kind = "policy"
  /\ ServedFromStore(LiveEntry, PlainGet, now)

\* A fetch that looks the request up in the store: not a HEAD, not told to
\* skip the cache, under the header-sensitive (default) strategy.
IsLookup(args) ==
  /\ args.method \in {"GET", "POST"}
  /\ ~args.skipCache
  /\ args.cacheOptions.cacheStrategy = "default"

\* The entry was stored with a TTL override.
HasOverride(entry) == entry.kind = "policy" /\ Truthy(entry.ttlOverride)

\* This step calls the origin (this.httpFetch).
ContactsOrigin ==
  \/ httpFetchCalls' = HttpFetchCalled(httpFetchCalls)
  \/ fetchPc = "idle" /\ httpFetchCalls' = 1

\* This step ends a fetch that has not called the origin: it returns what
\* the store holds.
ServesFromStore ==
  fetchPc # "returned" /\ fetchPc' = "returned" /\ httpFetchCalls' = 0

\* C11: while the age of an entry stored with TTL override T is below T, a
\* lookup for its key does not call the origin (it is served from the store);
\* once the age has reached T, no lookup is served from the store without an
\* origin call, whatever lifetime the stored response declared.
C11_TtlOverrideReuse ==
  [][ /\ ( ContactsOrigin /\ IsLookup(fetchArgs') /\ HasOverride(LiveEntry) )
          => AgeOf(LiveEntry, now) >= LiveEntry.ttlOverride
      /\ ( ServesFromStore /\ IsLookup(fetchArgs') /\ HasOverride(LiveEntry) )
          => AgeOf(LiveEntry, now) < LiveEntry.ttlOverride ]_vars

\* A stored entry with which no TTL override was recorded.
NoOverride(entry) == entry.kind = "policy" /\ ~Truthy(entry.ttlOverride)

\* C12: when no TTL override was recorded with the stored entry, a lookup is
\* served from the store without contacting the origin exactly when the
\* freshness check, made with the current request's headers, reports the
\* stored response fresh; in every other case the origin is contacted.  So a
\* step that calls the origin finds the check failing, and a step that
\* answers from the store finds it succeeding.
C12_PolicyFreshnessReuse ==
  [][ /\ ( ContactsOrigin /\ IsLookup(fetchArgs') /\ NoOverride(LiveEntry) )
          => ~SatisfiesWithoutRevalidation(LiveEntry, fetchArgs', now)
      /\ ( ServesFromStore /\ IsLookup(fetchArgs') /\ NoOverride(LiveEntry) )
          => SatisfiesWithoutRevalidation(LiveEntry, fetchArgs', now) ]_vars

\* A fetch that has returned after revalidating a stored entry.
ReturnedFromRevalidation ==
  fetchPc = "returned" /\ fetchEntry.kind = "policy"

\* C13: when the revalidation of a stale stored entry is answered with not
\* modified, fetch returns the previously stored body, not the body of the
\* origin's answer, and the whole lookup has called the origin exactly once.
C13_NotModifiedReturnsStoredBody ==
  ( fetchPc = "returned" /\ httpFetchStatus = StatusNotModified ) =>
     /\ ReturnedFromRevalidation
     /\ fetchReturn.body = fetchEntry.body
     /\ httpFetchCalls = 1

\* A stale entry with an entity tag was revalidated, the origin answered not
\* modified, and fetch returned the stored body.
C13_Witness ==
  /\ ReturnedFromRevalidation
  /\ httpFetchStatus = StatusNotModified
  /\ fetchEntry.validator
  /\ ~ServedFromStore(fetchEntry, fetchArgs, now)
  /\ fetchReturn.body = fetchEntry.body
  /\ httpFetchCalls = 1

\* A stored entry that a request without cache headers is not served.
Stale(entry, time) == entry.kind = "policy" /\ ~ServedFromStore(entry, PlainGet, time)

\* fetch awaits the origin's answer to the revalidation of a stale entry.
AwaitsRevalidation ==
  fetchPc = "httpFetch:revalidation" /\ Stale(fetchEntry, now)

\* fetch has returned from such a revalidation with a modified response.
ReturnedModified ==
  /\ ReturnedFromRevalidation
  /\ httpFetchStatus # StatusNotModified
  /\ Stale(fetchEntry, now)

\* What a lookup starting now would be served fresh from the store is the
\* body fetch has returned.
FollowingLookupServedNewBody ==
  ( LiveEntry.kind = "policy" /\ ServedFromStore(LiveEntry, PlainGet, now) ) =>
     LiveEntry.body = fetchReturn.body

\* C14 as stated: when the revalidation of a stale entry receives a modified
\* response, the caller is given the new response's body and that new body
\* replaces the stored one (a write of it is issued), so a following lookup
\* served fresh from the store returns the new body and never the old one.
\* No answer of the origin can make fetch return otherwise, and no write of
\* the returned fetch can end otherwise.
C14_ModifiedAlwaysReplaces ==
  /\ AwaitsRevalidation =>
       \A response \in RevalidationResponses :
          Modified(response) =>
             ~ ENABLED ( /\ RevalidationResponds(response)
                         /\ ~ ( /\ fetchReturn'.body = response.body
                                /\ fetchReturn'.cacheWritePromise
                                /\ \A write \in cacheWrites' :
                                      write.value.body = response.body ) )
  /\ ( ReturnedModified /\ fetchReturn.cacheWritePromise ) =>
       \A write \in cacheWrites :
          ~ ENABLED ( CacheWriteLands(write) /\ ~FollowingLookupServedNewBody' )

\* C14, amended: when the revalidation of a stale entry receives a modified
\* response, the caller is given the new response's body; if the new
\* response is stored, what is written is the new body, and once that write
\* has ended well a following lookup served fresh from the store returns
\* the new body and never the old one.
C14_ModifiedReplacesWhenStored ==
  /\ AwaitsRevalidation =>
       \A response \in RevalidationResponses :
          Modified(response) =>
             ~ ENABLED ( /\ RevalidationResponds(response)
                         /\ ~ ( /\ fetchReturn'.body = response.body
                                /\ fetchReturn'.cacheWritePromise =>
                                      /\ cacheWrites' # {}
                                      /\ \A write \in cacheWrites' :
                                            write.value.body = response.body ) )
  /\ ( ReturnedModified /\ fetchReturn.cacheWritePromise ) =>
       \A write \in cacheWrites :
          ~ ENABLED ( CacheWriteLands(write) /\ ~FollowingLookupServedNewBody' )

\* A stale entry was revalidated, the origin answered with another body,
\* fetch returned it, the write has ended, and a lookup would now be served
\* the new body from the store.
C14_Witness ==
  /\ ReturnedModified
  /\ fetchReturn.body # fetchEntry.body
  /\ fetchReturn.cacheWritePromise
  /\ cacheWrites = {}
  /\ LiveEntry.kind = "policy"
  /\ ServedFromStore(LiveEntry, PlainGet, now)
  /\ LiveEntry.body = fetchReturn.body

\* fetch has returned what the origin answered, after the store decision of
\* storeResponseAndReturnClone (a HEAD and the 'object' strategy never get there).
ReturnedFromStoreDecision ==
  /\ fetchPc = "returned"
  /\ httpFetchCalls > 0
  /\ fetchArgs.method # "HEAD"
  /\ fetchArgs.cacheOptions.cacheStrategy = "default"

IsSuccess(status) == status >= 200 /\ status <= 299

AwaitsStoreDecision ==
  \/ fetchPc \in {"httpFetch:cold", "httpFetch:revalidation"}
  \/ fetchPc = "httpFetch:function" /\ fetchArgs.cacheOptions.cacheStrategy = "default"

\* The answers the origin can give at that await.
ResponsesAwaited ==
  IF fetchPc = "httpFetch:revalidation" THEN RevalidationResponses ELSE OriginResponses

\* The origin answers and fetch runs to its return.
StoreDecisionResponds(response) ==
  \/ ColdResponds(response)
  \/ RevalidationResponds(response)
  \/ FunctionResponds(response)

ReturnedFromOrigin == fetchPc = "returned" /\ httpFetchCalls > 0

\* C17: a response with a non-success (non-2xx) status is never written to
\* the persistent store when a TTL override is supplied, and such a call
\* returns no cache-write handle.
C17_OverrideNeverStoresNonSuccess ==
  ( /\ ReturnedFromOrigin
    /\ Truthy(fetchArgs.cacheOptions.ttl)
    /\ ~IsSuccess(fetchReturn.status) ) =>
      /\ ~fetchReturn.cacheWritePromise
      /\ cacheSets = 0

\* The effective TTL of a response, in the claims' words: the TTL override
\* if one is given, otherwise the policy engine's lifetime in milliseconds
\* rounded to whole seconds.
EffectiveTtlOf(response) ==
  IF fetchArgs.cacheOptions.ttl # NoTtl
  THEN fetchArgs.cacheOptions.ttl
  ELSE (response.timeToLive + 500) \div 1000

\* C18: if the effective TTL is less than or equal to 0, in particular when
\* the TTL override is 0, the response is not stored and no cache-write
\* handle is returned, even if the response would otherwise be storable: no
\* answer of the origin with such a TTL leads to a write or a handle.
C18_NoStoreWithoutPositiveTtl ==
  AwaitsStoreDecision =>
    \A response \in ResponsesAwaited :
       EffectiveTtlOf(response) <= 0 =>
          ~ ENABLED ( /\ StoreDecisionResponds(response)
                      /\ fetchReturn'.cacheWritePromise \/ cacheSets' > 0 )

\* A GET with TTL override 0 was answered 200 and fetch returned without a
\* write and without a handle.
C18_Witness ==
  /\ ReturnedFromStoreDecision
  /\ fetchArgs.method = "GET"
  /\ fetchArgs.cacheOptions.ttl = 0
  /\ fetchReturn.status = StatusOK
  /\ ~fetchReturn.cacheWritePromise
  /\ cacheSets = 0

C20_WriteInBackground ==
  /\ AwaitsStoreDecision =>
       \A response \in ResponsesAwaited :
          ~ ENABLED ( /\ StoreDecisionResponds(response)
                      /\ fetchReturn'.cacheWritePromise
                      /\ cacheWrites' = {} \/ cacheWritePromiseSettled' )
  /\ ( SettlesCacheWritePromise /\ cacheWritePromiseSettled ) => cacheWrites = {}

\* fetch has returned a stored response and its handle while the write is
\* still going on and the handle is not complete.
C20_Witness ==
  /\ ReturnedFromStoreDecision
  /\ SettlesCacheWritePromise
  /\ cacheWrites # {}
  /\ ~cacheWritePromiseSettled

\* The only write this fetch issued has failed: its handle is complete, no
\* write is left and the store is as empty as before.
OwnWriteFailed ==
  /\ nfetches = 1
  /\ SettlesCacheWritePromise
  /\ cacheWritePromiseSettled
  /\ cacheWrites = {}
  /\ keyValueCache = EmptySlot

\* C21: a failure of the persistent-store write never causes the caller's
\* fetch to reject and never changes the response the caller receives.  No
\* failing write moves fetch from where it is or changes what it returned,
\* a fetch that rejected has issued no write, and after its write failed the
\* caller still holds the response the origin gave.
C21_WriteFailureDoesNotReachCaller ==
  /\ \A write \in cacheWrites :
        ~ ENABLED ( /\ CacheWriteFails(write)
                    /\ fetchPc' # fetchPc \/ fetchReturn' # fetchReturn )
  /\ fetchPc = "rejected" => cacheSets = 0
  /\ OwnWriteFailed =>
        /\ fetchPc = "returned"
        /\ fetchReturn.status = httpFetchStatus
        /\ fetchReturn.body \in Bodies

\* A fetch returned the origin's response with a handle, and its write then
\* failed.
C21_Witness ==
  /\ OwnWriteFailed
  /\ ReturnedFromOrigin
  /\ cacheSets = 1

\* C22: every failure of the background persistent-store write is handed to
\* the overridable failure sink: the handle catchCacheWritePromiseErrors was
\* given rejects with the write's error, so an override observes it.  No
\* write that the returned handle stands for can fail and leave the handle
\* unrejected.
C22_WriteFailureHandedToSink ==
  SettlesCacheWritePromise =>
    \A write \in cacheWrites :
       ~ ENABLED ( CacheWriteFails(write) /\ ~cacheWritePromiseRejected' )

\* The origin fetch of the current performRequest failed.
OriginFailed == fetchPc = "rejected" /\ httpFetchCalls > 0

\* The origin answered the current performRequest with an error status.
OriginAnsweredError ==
  /\ fetchPc = "returned"
  /\ httpFetchCalls > 0
  /\ httpFetchStatus = StatusNotFound

\* The error the failure of the current performRequest is.
OriginError == IF OriginFailed THEN "FetchError" ELSE "GraphQLError"

FailedOnRead == fetchPc = "rejected" /\ httpFetchCalls = 0

\* C24 as stated: if reading the persistent store fails, the fetch treats it
\* as a cache miss and proceeds with a cold origin fetch; the caller's fetch
\* never fails because of a cache read error.
C24_ReadErrorIsMiss == ~FailedOnRead

\* C24, amended: if reading the persistent store fails (as opposed to
\* returning no entry), the fetch does not treat it as a cache miss: it
\* rejects with the read error, having made no origin request and issued
\* no write, and the caller's performRequest rejects with that error
\* unless didEncounterError replaces it.
C24_ReadErrorRejects ==
  /\ fetchPc \in GetAwaits =>
        ~ ENABLED ( /\ KeyValueCacheGetRejects
                    /\ ~ ( fetchPc' = "rejected" /\ httpFetchCalls' = 0 /\ cacheSets' = 0 ) )
  /\ FailedOnRead =>
        /\ cacheGets = 1
        /\ cacheSets = 0
        /\ ~ ENABLED ( /\ CallerContinues(FALSE)
                       /\ ~ ( performRequestOutcome' = "rejected"
                              /\ performRequestError' = "FetchError" ) )

\* A lookup's read of the store failed and the fetch rejected without an
\* origin request.
C24_Witness ==
  /\ FailedOnRead
  /\ IsLookup(fetchArgs)
  /\ cacheGets = 1

\* C25: by default, GET and HEAD requests get the policy
\* deduplicate-during-request-lifetime with deduplication key
\* method + " " + cacheKey, and every other method gets do-not-deduplicate
\* with invalidateDeduplicationKeys equal to the GET and the HEAD
\* deduplication keys of the same resource.
C25_DefaultPolicy ==
  \A i \in 1..Len(policyResults) :
     LET policy == policyResults[i]
         method == MethodOf(policyRequest)
         cacheKey == CacheKeyFor(policyUrl, policyRequest)
         asGet == [policyRequest EXCEPT !.method = "GET"]
         asHead == [policyRequest EXCEPT !.method = "HEAD"]
     IN  IF method \in {"GET", "HEAD"}
           THEN /\ policy.policy = DRL
                /\ policy.deduplicationKey = method \o " " \o cacheKey
           ELSE /\ policy.policy = DND
                /\ policy.invalidateDeduplicationKeys =
                     { RequestDeduplicationPolicyFor(policyUrl, asGet).deduplicationKey,
                       RequestDeduplicationPolicyFor(policyUrl, asHead).deduplicationKey }

FunctionLookups == { args \in FetchArguments : args.cacheOptionsIsFunction /\ IsLookup(args) }

\* The store holds an entry from which a lookup with these arguments can be
\* answered now.
CanBeServedFromStore(args) ==
  LiveEntry.kind = "policy" /\ ServedFromStore(LiveEntry, args, now)

\* C27: when cacheOptions is a function, it is called only after a real
\* origin request has been made: if the response can be served from the
\* persistent store, the store serves it without an origin call and the
\* function is not called.  So the function's fetch has an origin answer
\* whenever the function has run, and no fetch with a function begins with
\* an origin call while the store can serve it.
C27_FunctionCalledOnlyAfterOrigin ==
  /\ ( fetchArgs.cacheOptionsIsFunction /\ fetchPc = "returned" /\ cacheSets > 0 )
        => httpFetchStatus # 0
  /\ fetchPc = "idle" =>
        \A args \in FunctionLookups :
           CanBeServedFromStore(args) =>
             ~ ENABLED ( FetchBegins(args) /\ httpFetchCalls' > 0 )

\* The origin answers the fetch, on whichever path the fetch is.
OriginResponds(response) ==
  \/ HeadResponds(response)
  \/ FunctionResponds(response)
  \/ DirectSkipResponds(response)
  \/ DirectResponds(response)
  \/ ColdResponds(response)
  \/ RevalidationResponds(response)

\* The store decision on the origin's answer (on the reconciled response
\* when the answer is to a revalidation): eligible by TTL override and 2xx
\* status or by GET and storability, with a positive effective TTL.
EligibleToStore(response) ==
  LET decided == IF fetchPc = "httpFetch:revalidation"
                 THEN RevalidatedResponse(fetchEntry, response)
                 ELSE response
  IN  /\ Eligible(fetchArgs.method, decided, fetchArgs.cacheOptions.ttl)
      /\ EffectiveTtl(decided, fetchArgs.cacheOptions.ttl) > 0

\* C28: every completed origin fetch leads to at most one persistent-store
\* write, and a write is issued only when the policy/method/status
\* combination makes the response eligible; a call that is served fresh
\* from the store issues no write.
C28_AtMostOneEligibleWrite ==
  /\ cacheSets <= 1
  /\ cacheSets > 0 => httpFetchStatus # 0
  /\ fetchPc \in HttpFetchAwaits =>
        \A response \in RevalidationResponses :
           ~ ENABLED ( /\ OriginResponds(response)
                       /\ cacheSets' > cacheSets
                       /\ ~EligibleToStore(response) )
  /\ ( fetchPc = "returned" /\ httpFetchCalls = 0 ) =>
        cacheSets = 0 /\ ~fetchReturn.cacheWritePromise

\* The data source call c is made on.
InstanceOf(c) == request[c].instance

\* C29: the dedup table belongs to one RESTDataSource instance: a call on
\* one instance is never deduplicated against, and never invalidates, an
\* entry created by a call on another instance.  Every call is served by a
\* call on its own instance, every table holds only promises of calls on its
\* own instance, and no call that starts or continues changes the table of
\* an instance other than its own.
C29_TablePerInstance ==
  /\ \A c \in Started : InstanceOf(servedBy[c]) = InstanceOf(c)
  /\ \A i \in Instances, k \in DedupKeys :
        deduplicationPromises[i][k] # NoCall =>
          InstanceOf(deduplicationPromises[i][k]) = i
  /\ \A r \in InstanceRequests : \A i \in Instances \ { r.instance } :
        ~ ENABLED ( /\ \/ StartDeduplicated(nstarted + 1, r)
                       \/ StartOwner(nstarted + 1, r)
                       \/ StartNotDeduplicated(nstarted + 1, r)
                    /\ deduplicationPromises'[i] # deduplicationPromises[i] )
  /\ \A c \in Started : \A i \in Instances \ { InstanceOf(c) } :
        ~ ENABLED ( /\ OwnerContinues(c)
                    /\ deduplicationPromises'[i] # deduplicationPromises[i] )

\* A GET on one instance is retained in its table; after it a POST and a
\* GET were made on the other instance: the first entry is still there and
\* the second GET started a request of its own.
C29_Witness ==
  /\ nstarted >= 3
  /\ InstanceOf(1) = TheInstance
  /\ deduplicationPromises[TheInstance][CacheKeyFor(TheURL, request[1])] = 1
  /\ request[2].method = "POST" /\ InstanceOf(2) = OtherInstance
  /\ request[3].method = "GET" /\ InstanceOf(3) = OtherInstance
  /\ servedBy[3] = 3
  /\ deduplicationPromises[OtherInstance][CacheKeyFor(TheURL, request[3])] = 3

\* The table of the data source holds, under key k, the promise of a GET
\* made under deduplicate-until-invalidated.
RetainedForGet(k) ==
  LET o == deduplicationPromises[TheInstance][k] IN
  /\ o # NoCall
  /\ request[o].method = "GET"
  /\ PolicyOf(o).policy = DUI

\* This step takes the promise of such a GET out of the table.
RemovesGetEntry ==
  \E k \in DedupKeys :
     /\ RetainedForGet(k)
     /\ deduplicationPromises'[TheInstance][k] # deduplicationPromises[TheInstance][k]

\* C30: a HEAD request under the default policy removes no entry from the
\* dedup table: an entry retained for a GET to the same URL under
\* deduplicate-until-invalidated still serves later GETs after any number
\* of HEAD requests.  No step of a HEAD call, its start or its completion,
\* takes the promise of such a GET out of the table.
C30_HeadRemovesNoGetEntry ==
  /\ \A r \in Requests \cup KeyRequests :
        r.method = "HEAD" =>
          ~ ENABLED ( /\ \/ StartDeduplicated(nstarted + 1, r)
                         \/ StartOwner(nstarted + 1, r)
                      /\ RemovesGetEntry )
  /\ \A c \in Started :
        request[c].method = "HEAD" =>
          ~ ENABLED ( ( OwnerContinues(c) \/ WaiterContinues(c) ) /\ RemovesGetEntry )

\* Call c has received a result.
HasResult(c) == pc[c] = "done" /\ outcome[c] = "fulfilled"

\* C31: deduplicatedAgainstPreviousRequest is true in a call's result
\* exactly when that call was served from an entry already present in the
\* dedup table, and false for the call that started the operation and for
\* every do-not-deduplicate call.
C31_DeduplicatedFlag ==
  \A c \in Started :
     HasResult(c) =>
       /\ deduplicated[c] <=> servedBy[c] # c
       /\ promise[c] # "none" => ~deduplicated[c]
       /\ PolicyOf(c).policy = DND => ~deduplicated[c]

\* One call was served from the entry of another and its result says so,
\* while the results of the call that started the operation and of a
\* do-not-deduplicate call say they were not.
C31_Witness ==
  \E o, w, s \in Started :
     /\ HasResult(o) /\ HasResult(w) /\ HasResult(s)
     /\ servedBy[w] = o /\ w # o /\ deduplicated[w]
     /\ ~deduplicated[o]
     /\ PolicyOf(s).policy = DND /\ ~deduplicated[s]

Table == deduplicationPromises[TheInstance]

\* What the step of call c that runs the else branch of fetch leaves: every
\* listed key gone, every other key as it was, the call's own performRequest
\* started, and no other call moved.
RemovedAllAndStarted(c, policy) ==
  /\ \A k \in DedupKeys :
        Table'[k] = IF k \in policy.invalidateDeduplicationKeys THEN NoCall ELSE Table[k]
  /\ pc'[c] = "solo" /\ promise'[c] = "pending"
  /\ \A d \in Calls \ {c} : pc'[d] = pc[d] /\ promise'[d] = promise[d]

\* C33: a do-not-deduplicate call removes all keys listed in
\* invalidateDeduplicationKeys in one atomic step before its own operation
\* starts: no other call can read or change the dedup table between two of
\* the removals or between the removals and the start of the operation.  The
\* call reaches its dedup step in one step only, and no such step ends with a
\* listed key still in the table, another key changed, the call's operation
\* not started, or another call moved; so no state has some of the listed
\* keys removed and the rest still to be removed.
C33_InvalidationIsOneStep ==
  \A r \in Requests :
     LET policy == PolicyFor(TheURL, r)
         c == nstarted + 1
     IN  ~IsSharing(policy) =>
           /\ ~ ENABLED StartDeduplicated(c, r)
           /\ ~ ENABLED StartOwner(c, r)
           /\ ~ ENABLED ( StartNotDeduplicated(c, r) /\ ~RemovedAllAndStarted(c, policy) )

\* A GET and a HEAD are in flight, and the POST that came third has removed
\* both their entries and started its own operation.
C33_Witness ==
  /\ nstarted = 3
  /\ request[1].method = "GET" /\ request[2].method = "HEAD" /\ request[3].method = "POST"
  /\ pc[1] = "owner" /\ pc[2] = "owner" /\ pc[3] = "solo" /\ promise[3] = "pending"
  /\ \A k \in PolicyOf(3).invalidateDeduplicationKeys : Table[k] = NoCall

\* What the step of call c that finds its key absent leaves: the key absent
\* before it, the call's promise under the key after it, every other key as
\* it was, the call's performRequest started, and no other call moved.
CheckedAndRegistered(c, policy) ==
  /\ Table[policy.deduplicationKey] = NoCall
  /\ \A k \in DedupKeys :
        Table'[k] = IF k = policy.deduplicationKey THEN c ELSE Table[k]
  /\ pc'[c] = "owner" /\ promise'[c] = "pending"
  /\ \A d \in Calls \ {c} : pc'[d] = pc[d] /\ promise'[d] = promise[d]

\* C34: the check for an existing entry and the registration of the new
\* pending operation under the same key form one atomic step: no other call
\* can read or change the dedup table between them, so two callers never
\* both find the key absent and both start an operation for it.  A call
\* under a sharing policy reaches its dedup step in one step, which the
\* state of the table alone decides: it waits for the promise it finds, or,
\* finding none, ends the same step with its own promise under the key, so
\* that the next caller of the key finds it present.
C34_CheckAndRegisterIsOneStep ==
  \A r \in Requests :
     LET policy == PolicyFor(TheURL, r)
         c == nstarted + 1
     IN  IsSharing(policy) =>
           /\ ~ ENABLED StartNotDeduplicated(c, r)
           /\ Table[policy.deduplicationKey] # NoCall => ~ ENABLED StartOwner(c, r)
           /\ Table[policy.deduplicationKey] = NoCall => ~ ENABLED StartDeduplicated(c, r)
           /\ ~ ENABLED ( StartOwner(c, r) /\ ~CheckedAndRegistered(c, policy) )
           /\ ~ ENABLED ( /\ StartDeduplicated(c, r)
                          /\ ~ ( /\ Table' = Table
                                 /\ servedBy'[c] = Table[policy.deduplicationKey]
                                 /\ promise'[c] = "none" ) )

\* The first GET found its key absent and registered; the second GET, made
\* while the first is in flight, found the entry and started nothing.
C34_Witness ==
  /\ nstarted = 2
  /\ request[1] = request[2] /\ request[1].method = "GET"
  /\ pc[1] = "owner" /\ promise[1] = "pending" /\ Table[KeyOf(1)] = 1
  /\ pc[2] = "waiter" /\ servedBy[2] = 1 /\ promise[2] = "none"

\* The fetch has ended, with a response or with a rejection.
FetchEnded == fetchPc \in {"returned", "rejected"}

\* The fetch has returned without an origin call.
ReturnedFromStore == fetchPc = "returned" /\ httpFetchCalls = 0

\* C35 as stated: every cache-layer fetch performs exactly one origin fetch
\* (a cold fetch or a conditional revalidation), except when it is served
\* fresh from the persistent store, in which case it performs none; no
\* single fetch ever performs two origin fetches.
C35_OneOriginFetchUnlessServed ==
  /\ httpFetchCalls <= 1
  /\ FetchEnded => httpFetchCalls = 1 \/ ReturnedFromStore

\* C35, amended: every cache-layer fetch that returns a response has
\* performed exactly one origin fetch (a cold fetch or a conditional
\* revalidation), except when it is served from the persistent store, in
\* which case it has performed none and what it returns is what the store
\* holds; a fetch that rejects has performed one origin fetch, or none when
\* it rejected on its read of the store; no single fetch ever performs two
\* origin fetches.
C35_OneOriginFetchUnlessServedOrReadFailed ==
  /\ httpFetchCalls <= 1
  /\ fetchPc \in HttpFetchAwaits => httpFetchCalls = 1
  /\ fetchPc = "returned" => httpFetchCalls = 1 \/ ReturnedFromStore
  /\ ReturnedFromStore => cacheGets = 1 /\ cacheSets = 0 /\ httpFetchStatus = 0
  /\ FailedOnRead => cacheGets = 1 /\ cacheSets = 0
  /\ fetchPc = "get:policy" =>
        ~ ENABLED ( /\ PolicyGetReturns
                    /\ fetchPc' = "returned"
                    /\ ~ ( /\ LiveEntry.kind = "policy"
                           /\ fetchReturn'.body = LiveEntry.body
                           /\ httpFetchCalls' = 0 ) )
  /\ fetchPc = "get:direct" =>
        ~ ENABLED ( /\ DirectGetReturns
                    /\ fetchPc' = "returned"
                    /\ ~ ( /\ LiveEntry.kind # "none"
                           /\ fetchReturn'.parsedBody = LiveEntry.body
                           /\ httpFetchCalls' = 0 ) )

\* A lookup found an entry it could not be served from, and has returned
\* after its one origin fetch, the conditional revalidation.
C35_Witness ==
  /\ fetchPc = "returned"
  /\ fetchEntry.kind = "policy"
  /\ httpFetchCalls = 1
  /\ cacheGets = 1

\* C36: when a deduplicate-during-request-lifetime operation completes, it
\* removes from the dedup table only the entry it registered itself: if its
\* key was invalidated while it was in flight and a later call registered a
\* new entry under the same key, that newer entry is still in the table
\* after the older operation completes.
C36_RemovesOnlyOwnEntry ==
  \A o \in Started :
     ( /\ PolicyOf(o).policy = DRL
       /\ pc[o] = "owner"
       /\ Table[KeyOf(o)] \notin {o, NoCall} ) =>
         ~ ENABLED ( OwnerContinues(o) /\ Table'[KeyOf(o)] # Table[KeyOf(o)] )

\* C37: a mutation of the body by the caller that initiated an operation
\* never changes what callers served from the same dedup entry receive,
\* including callers served later from an entry retained under
\* deduplicate-until-invalidated.  The body of the result a promise in the
\* map resolved to is never changed, the initiator holds another object than
\* every caller served from its entry, and a served caller that did not
\* change its body holds an unchanged one, whatever the initiator did.
C37_InitiatorMutationNotSeen ==
  /\ \A o \in Started : IsOwner(o) => OriginalBodyOf(o) \notin mutatedObjects
  /\ \A w \in Started :
        ( IsWaiter(w) /\ HasResult(w) ) =>
          /\ parsedBody[w] # parsedBody[servedBy[w]]
          /\ parsedBody[w] # OriginalBodyOf(servedBy[w])
          /\ ( servedBy[w] \in mutators /\ w \notin mutators )
                => parsedBody[w] \notin mutatedObjects

\* The initiator of an operation retained until invalidated has changed its
\* body; one caller served from its entry has an unchanged body, and another
\* is about to be served from the entry after the change.
C37_Witness ==
  \E o, w, l \in Started :
     /\ IsOwner(o) /\ PolicyOf(o).policy = DUI /\ Table[KeyOf(o)] = o
     /\ o \in mutators
     /\ servedBy[w] = o /\ w # o /\ HasResult(w) /\ w \notin mutators
     /\ servedBy[l] = o /\ l # o /\ pc[l] = "waiter"

\* The entry of the operation of call o was taken out of the table while
\* the operation was in flight.
RemovedInFlight(o) ==
  IsOwner(o) /\ promise[o] = "pending" /\ Table[KeyOf(o)] # o

\* Call w has been given what the promise of call o settled to.
GotResultOf(w, o) ==
  /\ pc[w] = "done"
  /\ outcome[w] = AwaitOutcome(promise[o])
  /\ IF promise[o] = "fulfilled"
       THEN parsedBody[w] = CloneParsedBody(OriginalBodyOf(o), w)
       ELSE error[w] = o

\* C38: invalidating a key while its operation is in flight neither cancels
\* that operation nor changes what callers already waiting on it receive:
\* the operation runs to completion and each of those waiters gets its
\* result; only calls that start after the invalidation miss the entry.
\* The step of a do-not-deduplicate call changes the promise and the place
\* of no other call; a waiter's continuation gives it the result of the
\* promise it found at its dedup step; no call that starts once the entry is
\* gone waits on the in-flight operation; and that operation ends with its
\* initiator and every caller that was waiting on it holding its result.
C38_InvalidationDoesNotCancel ==
  /\ [] \A r \in LiveRequests :
          ~ ENABLED ( /\ StartNotDeduplicated(nstarted + 1, r)
                      /\ \E d \in Started :
                           \/ promise'[d] # promise[d]
                           \/ pc'[d] # pc[d]
                           \/ servedBy'[d] # servedBy[d] )
  /\ [] \A w \in Started :
          pc[w] = "waiter" =>
            ~ ENABLED ( WaiterContinues(w) /\ ~GotResultOf(w, servedBy[w])' )
  /\ [] \A o \in Started : \A r \in LiveRequests :
          RemovedInFlight(o) =>
            ~ ENABLED ( StartDeduplicated(nstarted + 1, r) /\ servedBy'[nstarted + 1] = o )
  /\ \A o \in 1..MaxLiveCalls :
        RemovedInFlight(o) ~> ( pc[o] = "done" /\ GotResultOf(o, o) )
  /\ \A w \in 1..MaxLiveCalls :
        ( pc[w] = "waiter" /\ RemovedInFlight(servedBy[w]) )
          ~> GotResultOf(w, servedBy[w])

\* A GET's key was invalidated by a POST while the GET was in flight with a
\* caller waiting on it; the GET's operation has completed and the waiter
\* has been given its result.
C38_Witness ==
  /\ nstarted = 3
  /\ request[1].method = "GET" /\ request[2] = request[1] /\ request[3].method = "POST"
  /\ servedBy[2] = 1
  /\ promise[1] = "fulfilled"
  /\ GotResultOf(1, 1) /\ GotResultOf(2, 1)
  /\ deduplicated[2]

\* Call c was made under the policy the default requestDeduplicationPolicyFor
\* gives it.
UnderDefaultPolicy(c) == ~request[c].untilInvalidated

\* C39: under the default policy a HEAD call is never served the result of a
\* GET operation and a GET call is never served the result of a HEAD
\* operation, for every URL and also when the request carries an explicit
\* cacheKey.
C39_GetAndHeadNotShared ==
  \A c \in Started :
     ( /\ IsWaiter(c)
       /\ UnderDefaultPolicy(c) /\ UnderDefaultPolicy(servedBy[c])
       /\ request[c].method \in {"GET", "HEAD"} ) =>
         request[servedBy[c]].method = request[c].method

\* Call c has returned or rejected.
CallEnded(c) == pc[c] = "done" /\ outcome[c] \in {"fulfilled", "rejected"}

\* performRequest's fetch through the cache layer is under way.
FetchUnderWay == fetchPc # "idle"

\* C40: if every origin fetch and every persistent-store operation
\* eventually completes (with success or failure), then every fetch call
\* eventually returns or rejects; in particular no caller waits forever on a
\* shared dedup entry.  Every call that has reached its dedup step ends with
\* a result or a rejection, the callers waiting on a promise of the map
\* among them, and every performRequest that has entered the cache layer
\* settles.
C40_EveryCallEnds ==
  /\ \A c \in 1..MaxLiveCalls : ( c \in Started ) ~> CallEnded(c)
  /\ \A c \in 1..MaxLiveCalls : ( pc[c] = "waiter" ) ~> CallEnded(c)
  /\ FetchUnderWay ~> ( fetchPc = "idle" /\ performRequestOutcome # "pending" )

\* Three calls have ended: one that started an operation, one that waited on
\* its entry, and one that was not deduplicated.
C40_Witness ==
  \E o, w, s \in Started :
     /\ CallEnded(o) /\ CallEnded(w) /\ CallEnded(s)
     /\ IsOwner(o) /\ servedBy[w] = o /\ w # o /\ PolicyOf(s).policy = DND

============================================================================
